---------------------------- MODULE Spec2Model ----------------------------
(***************************************************************************)
(* Secret reconstruction from k shares: the base decoder, the rational     *)
(* arithmetic, the exact Gaussian elimination and its entry point          *)
(* (src/index2.js), and the floating-point Gaussian elimination with       *)
(* partial pivoting and its entry point (src/index.js).                    *)
(*                                                                         *)
(* Numbers.  A BigInt is a TLA+ integer.  A rational {num, den} is the     *)
(* record [num, den].  A Number of src/index.js is an IEEE 754 double,     *)
(* computed with its rounding.                                             *)
(*                                                                         *)
(* Strings.  A string is the sequence of its code points: "a1" is          *)
(* <<97, 49>>, KELVIN SIGN is 8490.                                        *)
(* Exceptions.  A thrown error is the value of err and a pc of "error".    *)
(***************************************************************************)
EXTENDS Integers, Sequences, FiniteSets, TLC

VARIABLES
    pc,        \* position of the running function
    err,       \* the error thrown, "" when none
    entry,     \* decoder: the entry {base, value} being decoded
    decoded,   \* decoder: the value returned
    given,     \* exact solver: the matrix and rhs as the caller built them
    matrix,    \* exact solver: the caller's matrix, mutated in place
    rhs,       \* exact solver: the caller's right-hand side, mutated in place
    col,       \* exact solver / approximate solver: the column being eliminated
    pivot,     \* exact solver: the pivot row found for col (maxRow in the approximate solver)
    x,         \* the coefficient vector returned by the running solver call
    calls,     \* exact solver: number of calls of solve started on matrix, rhs
    x1,        \* exact solver: the coefficient vector the first call returned
    heap,      \* approximate solver: the arrays of numbers, by object identity
    A,         \* approximate solver: the caller's matrix, a sequence of row identities
    b,         \* approximate solver: the caller's vector, an array identity
    M,         \* approximate solver: the private matrix, a sequence of row identities
    y,         \* approximate solver: the private vector, an array identity
    poly,      \* round trip: the coefficients of the polynomial the shares were sampled from
    doc,       \* entry points: the parsed input document
    points,    \* entry points: the decoded points
    printed,   \* entry points: what console.log wrote
    exitCode   \* entry points: the process exit status, -1 while running

vars == <<pc, err, entry, decoded, given, matrix, rhs, col, pivot, x, calls, x1,
          heap, A, b, M, y, poly, doc, points, printed, exitCode>>

-----------------------------------------------------------------------------
(* Values every specification starts from for the state it does not use *)

NoDoc == [n |-> 0, k |-> 0, stated |-> [n |-> "number", k |-> "number"], entries |-> << >>]
NoEntry == [form |-> "full", base |-> [num |-> 0, den |-> 1, text |-> FALSE], value |-> << >>]

IdleDecoder == entry = NoEntry /\ decoded = 0
NoSystem == [matrix |-> << >>, rhs |-> << >>]
IdleExact   == given = NoSystem /\ matrix = << >> /\ rhs = << >> /\ calls = 0 /\ x1 = << >>
IdleApprox  == heap = << >> /\ A = << >> /\ b = 0 /\ M = << >> /\ y = 0
IdleMain    == poly = << >> /\ doc = NoDoc /\ points = << >> /\ printed = << >> /\ exitCode = -1

decoderVars == <<entry, decoded>>
exactVars   == <<given, matrix, rhs, calls, x1>>
approxVars  == <<heap, A, b, M, y>>
mainVars    == <<poly, doc, points, printed, exitCode>>

-----------------------------------------------------------------------------
(* Bounds of the model *)

\* longest value string of the decoder specification
MaxLen == 3

\* number of successive calls of solve on the same arrays
MaxCalls == 2

\* largest threshold k of the documents handed to the entry points
MaxK == 3

-----------------------------------------------------------------------------
(* Integers as JavaScript computes them *)

Abs(n) == IF n < 0 THEN -n ELSE n

\* BigInt division truncates toward zero
BigDiv(n, d) == IF (n >= 0) = (d > 0) THEN Abs(n) \div Abs(d) ELSE -(Abs(n) \div Abs(d))

\* BigInt remainder has the sign of the dividend
BigRem(n, d) == IF n >= 0 THEN n % Abs(d) ELSE -((-n) % Abs(d))

RECURSIVE Pow(_, _)
Pow(n, e) == IF e = 0 THEN 1 ELSE n * Pow(n, e - 1)

-----------------------------------------------------------------------------
(* Characters and the digit alphabet *)

\* "0123456789abcdefghijklmnopqrstuvwxyz": the code points 48..57, 97..122
DIGITS == [i \in 1..36 |-> IF i <= 10 THEN 47 + i ELSE 86 + i]

\* String.prototype.toLowerCase follows the Unicode Character Database
\* (version 17.0).  A cased character with a lower case of one character is
\* in a range <<first, last, step, offset>>: every step-th code point from
\* first to last has the lower case at its own code point plus offset
LowerRanges ==
    { <<65, 90, 1, 32>>, <<192, 214, 1, 32>>, <<216, 222, 1, 32>>,
      <<256, 302, 2, 1>>, <<306, 310, 2, 1>>, <<313, 327, 2, 1>>,
      <<330, 374, 2, 1>>, <<376, 376, 1, -121>>, <<377, 381, 2, 1>>,
      <<385, 385, 1, 210>>, <<386, 388, 2, 1>>, <<390, 390, 1, 206>>,
      <<391, 391, 1, 1>>, <<393, 394, 1, 205>>, <<395, 395, 1, 1>>,
      <<398, 398, 1, 79>>, <<399, 399, 1, 202>>, <<400, 400, 1, 203>>,
      <<401, 401, 1, 1>>, <<403, 403, 1, 205>>, <<404, 404, 1, 207>>,
      <<406, 406, 1, 211>>, <<407, 407, 1, 209>>, <<408, 408, 1, 1>>,
      <<412, 412, 1, 211>>, <<413, 413, 1, 213>>, <<415, 415, 1, 214>>,
      <<416, 420, 2, 1>>, <<422, 422, 1, 218>>, <<423, 423, 1, 1>>,
      <<425, 425, 1, 218>>, <<428, 428, 1, 1>>, <<430, 430, 1, 218>>,
      <<431, 431, 1, 1>>, <<433, 434, 1, 217>>, <<435, 437, 2, 1>>,
      <<439, 439, 1, 219>>, <<440, 440, 1, 1>>, <<444, 444, 1, 1>>,
      <<452, 452, 1, 2>>, <<453, 453, 1, 1>>, <<455, 455, 1, 2>>,
      <<456, 456, 1, 1>>, <<458, 458, 1, 2>>, <<459, 475, 2, 1>>,
      <<478, 494, 2, 1>>, <<497, 497, 1, 2>>, <<498, 500, 2, 1>>,
      <<502, 502, 1, -97>>, <<503, 503, 1, -56>>, <<504, 542, 2, 1>>,
      <<544, 544, 1, -130>>, <<546, 562, 2, 1>>, <<570, 570, 1, 10795>>,
      <<571, 571, 1, 1>>, <<573, 573, 1, -163>>, <<574, 574, 1, 10792>>,
      <<577, 577, 1, 1>>, <<579, 579, 1, -195>>, <<580, 580, 1, 69>>,
      <<581, 581, 1, 71>>, <<582, 590, 2, 1>>, <<880, 882, 2, 1>>,
      <<886, 886, 1, 1>>, <<895, 895, 1, 116>>, <<902, 902, 1, 38>>,
      <<904, 906, 1, 37>>, <<908, 908, 1, 64>>, <<910, 911, 1, 63>>,
      <<913, 929, 1, 32>>, <<931, 939, 1, 32>>, <<975, 975, 1, 8>>,
      <<984, 1006, 2, 1>>, <<1012, 1012, 1, -60>>, <<1015, 1015, 1, 1>>,
      <<1017, 1017, 1, -7>>, <<1018, 1018, 1, 1>>, <<1021, 1023, 1, -130>>,
      <<1024, 1039, 1, 80>>, <<1040, 1071, 1, 32>>, <<1120, 1152, 2, 1>>,
      <<1162, 1214, 2, 1>>, <<1216, 1216, 1, 15>>, <<1217, 1229, 2, 1>>,
      <<1232, 1326, 2, 1>>, <<1329, 1366, 1, 48>>, <<4256, 4293, 1, 7264>>,
      <<4295, 4295, 1, 7264>>, <<4301, 4301, 1, 7264>>, <<5024, 5103, 1, 38864>>,
      <<5104, 5109, 1, 8>>, <<7305, 7305, 1, 1>>, <<7312, 7354, 1, -3008>>,
      <<7357, 7359, 1, -3008>>, <<7680, 7828, 2, 1>>, <<7838, 7838, 1, -7615>>,
      <<7840, 7934, 2, 1>>, <<7944, 7951, 1, -8>>, <<7960, 7965, 1, -8>>,
      <<7976, 7983, 1, -8>>, <<7992, 7999, 1, -8>>, <<8008, 8013, 1, -8>>,
      <<8025, 8031, 2, -8>>, <<8040, 8047, 1, -8>>, <<8072, 8079, 1, -8>>,
      <<8088, 8095, 1, -8>>, <<8104, 8111, 1, -8>>, <<8120, 8121, 1, -8>>,
      <<8122, 8123, 1, -74>>, <<8124, 8124, 1, -9>>, <<8136, 8139, 1, -86>>,
      <<8140, 8140, 1, -9>>, <<8152, 8153, 1, -8>>, <<8154, 8155, 1, -100>>,
      <<8168, 8169, 1, -8>>, <<8170, 8171, 1, -112>>, <<8172, 8172, 1, -7>>,
      <<8184, 8185, 1, -128>>, <<8186, 8187, 1, -126>>, <<8188, 8188, 1, -9>>,
      <<8486, 8486, 1, -7517>>, <<8490, 8490, 1, -8383>>, <<8491, 8491, 1, -8262>>,
      <<8498, 8498, 1, 28>>, <<8544, 8559, 1, 16>>, <<8579, 8579, 1, 1>>,
      <<9398, 9423, 1, 26>>, <<11264, 11311, 1, 48>>, <<11360, 11360, 1, 1>>,
      <<11362, 11362, 1, -10743>>, <<11363, 11363, 1, -3814>>, <<11364, 11364, 1, -10727>>,
      <<11367, 11371, 2, 1>>, <<11373, 11373, 1, -10780>>, <<11374, 11374, 1, -10749>>,
      <<11375, 11375, 1, -10783>>, <<11376, 11376, 1, -10782>>, <<11378, 11378, 1, 1>>,
      <<11381, 11381, 1, 1>>, <<11390, 11391, 1, -10815>>, <<11392, 11490, 2, 1>>,
      <<11499, 11501, 2, 1>>, <<11506, 11506, 1, 1>>, <<42560, 42604, 2, 1>>,
      <<42624, 42650, 2, 1>>, <<42786, 42798, 2, 1>>, <<42802, 42862, 2, 1>>,
      <<42873, 42875, 2, 1>>, <<42877, 42877, 1, -35332>>, <<42878, 42886, 2, 1>>,
      <<42891, 42891, 1, 1>>, <<42893, 42893, 1, -42280>>, <<42896, 42898, 2, 1>>,
      <<42902, 42920, 2, 1>>, <<42922, 42922, 1, -42308>>, <<42923, 42923, 1, -42319>>,
      <<42924, 42924, 1, -42315>>, <<42925, 42925, 1, -42305>>, <<42926, 42926, 1, -42308>>,
      <<42928, 42928, 1, -42258>>, <<42929, 42929, 1, -42282>>, <<42930, 42930, 1, -42261>>,
      <<42931, 42931, 1, 928>>, <<42932, 42946, 2, 1>>, <<42948, 42948, 1, -48>>,
      <<42949, 42949, 1, -42307>>, <<42950, 42950, 1, -35384>>, <<42951, 42953, 2, 1>>,
      <<42955, 42955, 1, -42343>>, <<42956, 42970, 2, 1>>, <<42972, 42972, 1, -42561>>,
      <<42997, 42997, 1, 1>>, <<65313, 65338, 1, 32>>, <<66560, 66599, 1, 40>>,
      <<66736, 66771, 1, 40>>, <<66928, 66964, 2, 39>>, <<66929, 66938, 1, 39>>,
      <<66941, 66954, 1, 39>>, <<66957, 66962, 1, 39>>, <<66965, 66965, 1, 39>>,
      <<68736, 68786, 1, 64>>, <<68944, 68965, 1, 32>>, <<71840, 71871, 1, 32>>,
      <<93760, 93791, 1, 32>>, <<93856, 93880, 1, 27>>, <<125184, 125217, 1, 34>> }

\* the characters the Final_Sigma condition skips (Case_Ignorable), as ranges
\* <<first, last>>
CaseIgnorable ==
    { <<39, 39>>, <<46, 46>>, <<58, 58>>, <<94, 94>>, <<96, 96>>,
      <<168, 168>>, <<173, 173>>, <<175, 175>>, <<180, 180>>, <<183, 184>>,
      <<688, 879>>, <<884, 885>>, <<890, 890>>, <<900, 901>>, <<903, 903>>,
      <<1155, 1161>>, <<1369, 1369>>, <<1375, 1375>>, <<1425, 1469>>, <<1471, 1471>>,
      <<1473, 1474>>, <<1476, 1477>>, <<1479, 1479>>, <<1524, 1524>>, <<1536, 1541>>,
      <<1552, 1562>>, <<1564, 1564>>, <<1600, 1600>>, <<1611, 1631>>, <<1648, 1648>>,
      <<1750, 1757>>, <<1759, 1768>>, <<1770, 1773>>, <<1807, 1807>>, <<1809, 1809>>,
      <<1840, 1866>>, <<1958, 1968>>, <<2027, 2037>>, <<2042, 2042>>, <<2045, 2045>>,
      <<2070, 2093>>, <<2137, 2139>>, <<2184, 2184>>, <<2192, 2193>>, <<2199, 2207>>,
      <<2249, 2306>>, <<2362, 2362>>, <<2364, 2364>>, <<2369, 2376>>, <<2381, 2381>>,
      <<2385, 2391>>, <<2402, 2403>>, <<2417, 2417>>, <<2433, 2433>>, <<2492, 2492>>,
      <<2497, 2500>>, <<2509, 2509>>, <<2530, 2531>>, <<2558, 2558>>, <<2561, 2562>>,
      <<2620, 2620>>, <<2625, 2626>>, <<2631, 2632>>, <<2635, 2637>>, <<2641, 2641>>,
      <<2672, 2673>>, <<2677, 2677>>, <<2689, 2690>>, <<2748, 2748>>, <<2753, 2757>>,
      <<2759, 2760>>, <<2765, 2765>>, <<2786, 2787>>, <<2810, 2815>>, <<2817, 2817>>,
      <<2876, 2876>>, <<2879, 2879>>, <<2881, 2884>>, <<2893, 2893>>, <<2901, 2902>>,
      <<2914, 2915>>, <<2946, 2946>>, <<3008, 3008>>, <<3021, 3021>>, <<3072, 3072>>,
      <<3076, 3076>>, <<3132, 3132>>, <<3134, 3136>>, <<3142, 3144>>, <<3146, 3149>>,
      <<3157, 3158>>, <<3170, 3171>>, <<3201, 3201>>, <<3260, 3260>>, <<3263, 3263>>,
      <<3270, 3270>>, <<3276, 3277>>, <<3298, 3299>>, <<3328, 3329>>, <<3387, 3388>>,
      <<3393, 3396>>, <<3405, 3405>>, <<3426, 3427>>, <<3457, 3457>>, <<3530, 3530>>,
      <<3538, 3540>>, <<3542, 3542>>, <<3633, 3633>>, <<3636, 3642>>, <<3654, 3662>>,
      <<3761, 3761>>, <<3764, 3772>>, <<3782, 3782>>, <<3784, 3790>>, <<3864, 3865>>,
      <<3893, 3893>>, <<3895, 3895>>, <<3897, 3897>>, <<3953, 3966>>, <<3968, 3972>>,
      <<3974, 3975>>, <<3981, 3991>>, <<3993, 4028>>, <<4038, 4038>>, <<4141, 4144>>,
      <<4146, 4151>>, <<4153, 4154>>, <<4157, 4158>>, <<4184, 4185>>, <<4190, 4192>>,
      <<4209, 4212>>, <<4226, 4226>>, <<4229, 4230>>, <<4237, 4237>>, <<4253, 4253>>,
      <<4348, 4348>>, <<4957, 4959>>, <<5906, 5908>>, <<5938, 5939>>, <<5970, 5971>>,
      <<6002, 6003>>, <<6068, 6069>>, <<6071, 6077>>, <<6086, 6086>>, <<6089, 6099>>,
      <<6103, 6103>>, <<6109, 6109>>, <<6155, 6159>>, <<6211, 6211>>, <<6277, 6278>>,
      <<6313, 6313>>, <<6432, 6434>>, <<6439, 6440>>, <<6450, 6450>>, <<6457, 6459>>,
      <<6679, 6680>>, <<6683, 6683>>, <<6742, 6742>>, <<6744, 6750>>, <<6752, 6752>>,
      <<6754, 6754>>, <<6757, 6764>>, <<6771, 6780>>, <<6783, 6783>>, <<6823, 6823>>,
      <<6832, 6877>>, <<6880, 6891>>, <<6912, 6915>>, <<6964, 6964>>, <<6966, 6970>>,
      <<6972, 6972>>, <<6978, 6978>>, <<7019, 7027>>, <<7040, 7041>>, <<7074, 7077>>,
      <<7080, 7081>>, <<7083, 7085>>, <<7142, 7142>>, <<7144, 7145>>, <<7149, 7149>>,
      <<7151, 7153>>, <<7212, 7219>>, <<7222, 7223>>, <<7288, 7293>>, <<7376, 7378>>,
      <<7380, 7392>>, <<7394, 7400>>, <<7405, 7405>>, <<7412, 7412>>, <<7416, 7417>>,
      <<7468, 7530>>, <<7544, 7544>>, <<7579, 7679>>, <<8125, 8125>>, <<8127, 8129>>,
      <<8141, 8143>>, <<8157, 8159>>, <<8173, 8175>>, <<8189, 8190>>, <<8203, 8207>>,
      <<8216, 8217>>, <<8228, 8228>>, <<8231, 8231>>, <<8234, 8238>>, <<8288, 8292>>,
      <<8294, 8303>>, <<8305, 8305>>, <<8319, 8319>>, <<8336, 8348>>, <<8400, 8432>>,
      <<11388, 11389>>, <<11503, 11505>>, <<11631, 11631>>, <<11647, 11647>>, <<11744, 11775>>,
      <<11823, 11823>>, <<12293, 12293>>, <<12330, 12333>>, <<12337, 12341>>, <<12347, 12347>>,
      <<12441, 12446>>, <<12540, 12542>>, <<40981, 40981>>, <<42232, 42237>>, <<42508, 42508>>,
      <<42607, 42610>>, <<42612, 42621>>, <<42623, 42623>>, <<42652, 42655>>, <<42736, 42737>>,
      <<42752, 42785>>, <<42864, 42864>>, <<42888, 42890>>, <<42993, 42996>>, <<43000, 43001>>,
      <<43010, 43010>>, <<43014, 43014>>, <<43019, 43019>>, <<43045, 43046>>, <<43052, 43052>>,
      <<43204, 43205>>, <<43232, 43249>>, <<43263, 43263>>, <<43302, 43309>>, <<43335, 43345>>,
      <<43392, 43394>>, <<43443, 43443>>, <<43446, 43449>>, <<43452, 43453>>, <<43471, 43471>>,
      <<43493, 43494>>, <<43561, 43566>>, <<43569, 43570>>, <<43573, 43574>>, <<43587, 43587>>,
      <<43596, 43596>>, <<43632, 43632>>, <<43644, 43644>>, <<43696, 43696>>, <<43698, 43700>>,
      <<43703, 43704>>, <<43710, 43711>>, <<43713, 43713>>, <<43741, 43741>>, <<43756, 43757>>,
      <<43763, 43764>>, <<43766, 43766>>, <<43867, 43871>>, <<43881, 43883>>, <<44005, 44005>>,
      <<44008, 44008>>, <<44013, 44013>>, <<64286, 64286>>, <<64434, 64450>>, <<65024, 65039>>,
      <<65043, 65043>>, <<65056, 65071>>, <<65106, 65106>>, <<65109, 65109>>, <<65279, 65279>>,
      <<65287, 65287>>, <<65294, 65294>>, <<65306, 65306>>, <<65342, 65342>>, <<65344, 65344>>,
      <<65392, 65392>>, <<65438, 65439>>, <<65507, 65507>>, <<65529, 65531>>, <<66045, 66045>>,
      <<66272, 66272>>, <<66422, 66426>>, <<67456, 67461>>, <<67463, 67504>>, <<67506, 67514>>,
      <<68097, 68099>>, <<68101, 68102>>, <<68108, 68111>>, <<68152, 68154>>, <<68159, 68159>>,
      <<68325, 68326>>, <<68900, 68903>>, <<68942, 68942>>, <<68969, 68973>>, <<68975, 68975>>,
      <<69291, 69292>>, <<69317, 69317>>, <<69370, 69375>>, <<69446, 69456>>, <<69506, 69509>>,
      <<69633, 69633>>, <<69688, 69702>>, <<69744, 69744>>, <<69747, 69748>>, <<69759, 69761>>,
      <<69811, 69814>>, <<69817, 69818>>, <<69821, 69821>>, <<69826, 69826>>, <<69837, 69837>>,
      <<69888, 69890>>, <<69927, 69931>>, <<69933, 69940>>, <<70003, 70003>>, <<70016, 70017>>,
      <<70070, 70078>>, <<70089, 70092>>, <<70095, 70095>>, <<70191, 70193>>, <<70196, 70196>>,
      <<70198, 70199>>, <<70206, 70206>>, <<70209, 70209>>, <<70367, 70367>>, <<70371, 70378>>,
      <<70400, 70401>>, <<70459, 70460>>, <<70464, 70464>>, <<70502, 70508>>, <<70512, 70516>>,
      <<70587, 70592>>, <<70606, 70606>>, <<70608, 70608>>, <<70610, 70610>>, <<70625, 70626>>,
      <<70712, 70719>>, <<70722, 70724>>, <<70726, 70726>>, <<70750, 70750>>, <<70835, 70840>>,
      <<70842, 70842>>, <<70847, 70848>>, <<70850, 70851>>, <<71090, 71093>>, <<71100, 71101>>,
      <<71103, 71104>>, <<71132, 71133>>, <<71219, 71226>>, <<71229, 71229>>, <<71231, 71232>>,
      <<71339, 71339>>, <<71341, 71341>>, <<71344, 71349>>, <<71351, 71351>>, <<71453, 71453>>,
      <<71455, 71455>>, <<71458, 71461>>, <<71463, 71467>>, <<71727, 71735>>, <<71737, 71738>>,
      <<71995, 71996>>, <<71998, 71998>>, <<72003, 72003>>, <<72148, 72151>>, <<72154, 72155>>,
      <<72160, 72160>>, <<72193, 72202>>, <<72243, 72248>>, <<72251, 72254>>, <<72263, 72263>>,
      <<72273, 72278>>, <<72281, 72283>>, <<72330, 72342>>, <<72344, 72345>>, <<72544, 72544>>,
      <<72546, 72548>>, <<72550, 72550>>, <<72752, 72758>>, <<72760, 72765>>, <<72767, 72767>>,
      <<72850, 72871>>, <<72874, 72880>>, <<72882, 72883>>, <<72885, 72886>>, <<73009, 73014>>,
      <<73018, 73018>>, <<73020, 73021>>, <<73023, 73029>>, <<73031, 73031>>, <<73104, 73105>>,
      <<73109, 73109>>, <<73111, 73111>>, <<73177, 73177>>, <<73459, 73460>>, <<73472, 73473>>,
      <<73526, 73530>>, <<73536, 73536>>, <<73538, 73538>>, <<73562, 73562>>, <<78896, 78912>>,
      <<78919, 78933>>, <<90398, 90409>>, <<90413, 90415>>, <<92912, 92916>>, <<92976, 92982>>,
      <<92992, 92995>>, <<93504, 93506>>, <<93547, 93548>>, <<94031, 94031>>, <<94095, 94111>>,
      <<94176, 94177>>, <<94179, 94180>>, <<94194, 94195>>, <<110576, 110579>>, <<110581, 110587>>,
      <<110589, 110590>>, <<113821, 113822>>, <<113824, 113827>>, <<118528, 118573>>, <<118576, 118598>>,
      <<119143, 119145>>, <<119155, 119170>>, <<119173, 119179>>, <<119210, 119213>>, <<119362, 119364>>,
      <<121344, 121398>>, <<121403, 121452>>, <<121461, 121461>>, <<121476, 121476>>, <<121499, 121503>>,
      <<121505, 121519>>, <<122880, 122886>>, <<122888, 122904>>, <<122907, 122913>>, <<122915, 122916>>,
      <<122918, 122922>>, <<122928, 122989>>, <<123023, 123023>>, <<123184, 123197>>, <<123566, 123566>>,
      <<123628, 123631>>, <<124139, 124143>>, <<124398, 124399>>, <<124643, 124643>>, <<124646, 124646>>,
      <<124654, 124655>>, <<124661, 124661>>, <<124671, 124671>>, <<125136, 125142>>, <<125252, 125259>>,
      <<127995, 127999>>, <<917505, 917505>>, <<917536, 917631>>, <<917760, 917999>> }

\* the cased letters that are not Case_Ignorable, as ranges <<first, last>>
CasedLetters ==
    { <<65, 90>>, <<97, 122>>, <<170, 170>>, <<181, 181>>, <<186, 186>>,
      <<192, 214>>, <<216, 246>>, <<248, 442>>, <<444, 447>>, <<452, 659>>,
      <<662, 687>>, <<880, 883>>, <<886, 887>>, <<891, 893>>, <<895, 895>>,
      <<902, 902>>, <<904, 906>>, <<908, 908>>, <<910, 929>>, <<931, 1013>>,
      <<1015, 1153>>, <<1162, 1327>>, <<1329, 1366>>, <<1376, 1416>>, <<4256, 4293>>,
      <<4295, 4295>>, <<4301, 4301>>, <<4304, 4346>>, <<4349, 4351>>, <<5024, 5109>>,
      <<5112, 5117>>, <<7296, 7306>>, <<7312, 7354>>, <<7357, 7359>>, <<7424, 7467>>,
      <<7531, 7543>>, <<7545, 7578>>, <<7680, 7957>>, <<7960, 7965>>, <<7968, 8005>>,
      <<8008, 8013>>, <<8016, 8023>>, <<8025, 8025>>, <<8027, 8027>>, <<8029, 8029>>,
      <<8031, 8061>>, <<8064, 8116>>, <<8118, 8124>>, <<8126, 8126>>, <<8130, 8132>>,
      <<8134, 8140>>, <<8144, 8147>>, <<8150, 8155>>, <<8160, 8172>>, <<8178, 8180>>,
      <<8182, 8188>>, <<8450, 8450>>, <<8455, 8455>>, <<8458, 8467>>, <<8469, 8469>>,
      <<8473, 8477>>, <<8484, 8484>>, <<8486, 8486>>, <<8488, 8488>>, <<8490, 8493>>,
      <<8495, 8500>>, <<8505, 8505>>, <<8508, 8511>>, <<8517, 8521>>, <<8526, 8526>>,
      <<8544, 8575>>, <<8579, 8580>>, <<9398, 9449>>, <<11264, 11387>>, <<11390, 11492>>,
      <<11499, 11502>>, <<11506, 11507>>, <<11520, 11557>>, <<11559, 11559>>, <<11565, 11565>>,
      <<42560, 42605>>, <<42624, 42651>>, <<42786, 42863>>, <<42865, 42887>>, <<42891, 42894>>,
      <<42896, 42972>>, <<42997, 42998>>, <<43002, 43002>>, <<43824, 43866>>, <<43872, 43880>>,
      <<43888, 43967>>, <<64256, 64262>>, <<64275, 64279>>, <<65313, 65338>>, <<65345, 65370>>,
      <<66560, 66639>>, <<66736, 66771>>, <<66776, 66811>>, <<66928, 66938>>, <<66940, 66954>>,
      <<66956, 66962>>, <<66964, 66965>>, <<66967, 66977>>, <<66979, 66993>>, <<66995, 67001>>,
      <<67003, 67004>>, <<68736, 68786>>, <<68800, 68850>>, <<68944, 68965>>, <<68976, 68997>>,
      <<71840, 71903>>, <<93760, 93823>>, <<93856, 93880>>, <<93883, 93907>>, <<119808, 119892>>,
      <<119894, 119964>>, <<119966, 119967>>, <<119970, 119970>>, <<119973, 119974>>, <<119977, 119980>>,
      <<119982, 119993>>, <<119995, 119995>>, <<119997, 120003>>, <<120005, 120069>>, <<120071, 120074>>,
      <<120077, 120084>>, <<120086, 120092>>, <<120094, 120121>>, <<120123, 120126>>, <<120128, 120132>>,
      <<120134, 120134>>, <<120138, 120144>>, <<120146, 120485>>, <<120488, 120512>>, <<120514, 120538>>,
      <<120540, 120570>>, <<120572, 120596>>, <<120598, 120628>>, <<120630, 120654>>, <<120656, 120686>>,
      <<120688, 120712>>, <<120714, 120744>>, <<120746, 120770>>, <<120772, 120779>>, <<122624, 122633>>,
      <<122635, 122654>>, <<122661, 122666>>, <<125184, 125251>>, <<127280, 127305>>, <<127312, 127337>>,
      <<127344, 127369>> }

IsCaseIgnorable(ch) == \E r \in CaseIgnorable : r[1] <= ch /\ ch <= r[2]
IsCased(ch) == \E r \in CasedLetters : r[1] <= ch /\ ch <= r[2]

\* the lower case of one character out of context: the characters it
\* becomes.  LATIN CAPITAL LETTER I WITH DOT ABOVE (304) becomes i and
\* COMBINING DOT ABOVE; KELVIN SIGN (8490) becomes k
LowerChar(ch) ==
    IF ch = 304 THEN <<105, 775>>
    ELSE IF \E r \in LowerRanges : r[1] <= ch /\ ch <= r[2] /\ (ch - r[1]) % r[3] = 0
         THEN LET r == CHOOSE r \in LowerRanges :
                          r[1] <= ch /\ ch <= r[2] /\ (ch - r[1]) % r[3] = 0
              IN  <<ch + r[4]>>
    ELSE <<ch>>

\* Final_Sigma: s[i] follows a cased letter and is followed by none, the
\* characters of CaseIgnorable in between not counting
FinalSigma(s, i) ==
    /\ \E j \in 1..(i - 1) :
          /\ ~IsCaseIgnorable(s[j]) /\ IsCased(s[j])
          /\ \A m \in (j + 1)..(i - 1) : IsCaseIgnorable(s[m])
    /\ ~\E j \in (i + 1)..Len(s) :
          /\ ~IsCaseIgnorable(s[j]) /\ IsCased(s[j])
          /\ \A m \in (i + 1)..(j - 1) : IsCaseIgnorable(s[m])

\* s.toLowerCase(): GREEK CAPITAL LETTER SIGMA (931) becomes the final sigma
\* (962) where Final_Sigma holds, every other character its lower case
RECURSIVE lowerFrom(_, _)
lowerFrom(s, i) ==
    IF i > Len(s) THEN << >>
    ELSE (IF s[i] = 931 /\ FinalSigma(s, i) THEN <<962>> ELSE LowerChar(s[i]))
            \o lowerFrom(s, i + 1)

toLowerCase(s) == lowerFrom(s, 1)

\* DIGITS.indexOf(ch): the 0-based position, -1 when absent
indexOf(ch) ==
    IF \E i \in 1..Len(DIGITS) : DIGITS[i] = ch
    THEN (CHOOSE i \in 1..Len(DIGITS) : DIGITS[i] = ch) - 1
    ELSE -1

-----------------------------------------------------------------------------
(* Base decoder of the exact path: parseInBase *)

\* the loop of parseInBase over the (lower-cased) characters from position i,
\* with accumulator acc; a throw is reported in ok
RECURSIVE ParseLoop(_, _, _, _)
ParseLoop(s, B, i, acc) ==
    IF i > Len(s) THEN [ok |-> TRUE, val |-> acc]
    ELSE IF indexOf(s[i]) < 0 THEN [ok |-> FALSE, val |-> 0]
    ELSE ParseLoop(s, B, i + 1, acc * B + indexOf(s[i]))

\* parseInBase(s, base) for an integer base
parseInBase(s, B) ==
    LET r == ParseLoop(toLowerCase(s), B, 1, 0)
    IN  IF r.ok THEN [status |-> "ok", val |-> r.val]
        ELSE [status |-> "InvalidDigit", val |-> 0]

\* A base as the input document states it: the number num/den in lowest terms
\* (2.5 is [num |-> 5, den |-> 2]); text tells the document states it as a
\* string, "16" and not 16, a numeral that Number() turns into num/den.
\* An entry is the value of a property of the document: form is "full" for
\* an object with a base and a value string, "nobase" and "novalue" for an
\* object that lacks one of them, "emptybase" and "nullbase" for an object
\* whose base is the empty string or null, and "null" for null.
IsIntegerBase(base) == base.den = 1

\* the base is an integer in 2..36
SupportedBase(base) == base.den = 1 /\ base.num >= 2 /\ base.num <= 36

\* main, lines 111-113, for one entry: data[i].base of null throws a
\* TypeError; Number(base) is NaN for a missing base and 0 for a base that
\* is the empty string or null; parseInBase throws a
\* TypeError on the toLowerCase of a missing value, and then its BigInt(base)
\* throws a RangeError for a number that is not an integer
DecodeEntryExact(e) ==
    IF e.form \in {"null", "novalue"} THEN [status |-> "TypeError", val |-> 0]
    ELSE IF e.form = "nobase" \/ ~IsIntegerBase(e.base)
         THEN [status |-> "RangeError", val |-> 0]
    ELSE IF e.form \in {"emptybase", "nullbase"} THEN parseInBase(e.value, 0)
    ELSE parseInBase(e.value, e.base.num)

-----------------------------------------------------------------------------
(* Numbers of src/index.js: IEEE 754 double precision, with the rounding of  *)
(* every operation (round to nearest, ties to even), the two zeros, the      *)
(* subnormal numbers, the infinities and NaN.                                *)

\* bits of the significand of a Number
Precision == 53
\* exponent of the least significant bit of the smallest Number, 2^-1074
MinExp == -1074
\* every finite Number is below 2^1024
MaxBits == 1024

\* a natural number is held as its digits in base Limb, least significant
\* first and without leading zeros, so that no step of the arithmetic
\* leaves the integers of 32 bits
LimbBits == 14
Limb == 2^LimbBits
\* digits of the quotient a division computes before it rounds
QuotientLimbs == 4
\* bits kept of the larger operand when the smaller only decides the rounding
GuardedBits == Precision + 3

Max(a, c) == IF a >= c THEN a ELSE c

\* leading zero digits dropped
RECURSIVE BTrim(_)
BTrim(a) == IF Len(a) > 0 /\ a[Len(a)] = 0 THEN BTrim(SubSeq(a, 1, Len(a) - 1)) ELSE a

\* the digits of n >= 0
RECURSIVE BFromNat(_)
BFromNat(n) == IF n = 0 THEN << >> ELSE <<n % Limb>> \o BFromNat(n \div Limb)

\* a + c
RECURSIVE BAddFrom(_, _, _, _)
BAddFrom(a, c, i, carry) ==
    IF i > Len(a) /\ i > Len(c) THEN (IF carry = 0 THEN << >> ELSE <<carry>>)
    ELSE LET s == (IF i <= Len(a) THEN a[i] ELSE 0) + (IF i <= Len(c) THEN c[i] ELSE 0) + carry
         IN  <<s % Limb>> \o BAddFrom(a, c, i + 1, s \div Limb)
BAdd(a, c) == BAddFrom(a, c, 1, 0)

\* a - c for a >= c
RECURSIVE BSubFrom(_, _, _, _)
BSubFrom(a, c, i, borrow) ==
    IF i > Len(a) THEN << >>
    ELSE LET d == a[i] - (IF i <= Len(c) THEN c[i] ELSE 0) - borrow
         IN  IF d < 0 THEN <<d + Limb>> \o BSubFrom(a, c, i + 1, 1)
                      ELSE <<d>> \o BSubFrom(a, c, i + 1, 0)
BSub(a, c) == BTrim(BSubFrom(a, c, 1, 0))

\* 1, 0 or -1 as a is greater than, equal to or less than c
RECURSIVE BCmpFrom(_, _, _)
BCmpFrom(a, c, i) ==
    IF i = 0 THEN 0
    ELSE IF a[i] > c[i] THEN 1
    ELSE IF a[i] < c[i] THEN -1
    ELSE BCmpFrom(a, c, i - 1)
BCmp(a, c) ==
    IF Len(a) > Len(c) THEN 1 ELSE IF Len(a) < Len(c) THEN -1 ELSE BCmpFrom(a, c, Len(a))

\* a * s + carry for s, carry < Limb
RECURSIVE BMulSmallFrom(_, _, _, _)
BMulSmallFrom(a, s, i, carry) ==
    IF i > Len(a) THEN (IF carry = 0 THEN << >> ELSE <<carry>>)
    ELSE LET p == a[i] * s + carry
         IN  <<p % Limb>> \o BMulSmallFrom(a, s, i + 1, p \div Limb)
BMulSmall(a, s, carry) == IF s = 0 THEN BFromNat(carry) ELSE BMulSmallFrom(a, s, 1, carry)

\* a * c
RECURSIVE BMul(_, _)
BMul(a, c) ==
    IF a = << >> \/ c = << >> THEN << >>
    ELSE LET rest == BMul(a, Tail(c))
         IN  BAdd(BMulSmall(a, c[1], 0), IF rest = << >> THEN << >> ELSE <<0>> \o rest)

\* a * 2^n
BShl(a, n) ==
    IF a = << >> THEN << >>
    ELSE [i \in 1..(n \div LimbBits) |-> 0] \o BMulSmall(a, 2^(n % LimbBits), 0)

\* floor(a / 2^n)
RECURSIVE BDivSmallFrom(_, _, _, _)
BDivSmallFrom(a, d, i, rem) ==
    IF i = 0 THEN << >>
    ELSE LET v == rem * Limb + a[i]
         IN  BDivSmallFrom(a, d, i - 1, v % d) \o <<v \div d>>
BShr(a, n) ==
    IF n \div LimbBits >= Len(a) THEN << >>
    ELSE LET hi == SubSeq(a, (n \div LimbBits) + 1, Len(a))
         IN  BTrim(BDivSmallFrom(hi, 2^(n % LimbBits), Len(hi), 0))

\* the number of bits of a
RECURSIVE NatBits(_)
NatBits(n) == IF n = 0 THEN 0 ELSE 1 + NatBits(n \div 2)
BBitLen(a) == IF a = << >> THEN 0 ELSE (Len(a) - 1) * LimbBits + NatBits(a[Len(a)])

\* bit i of a, bit 0 the least significant
BBit(a, i) ==
    IF i \div LimbBits >= Len(a) THEN 0
    ELSE (a[(i \div LimbBits) + 1] \div 2^(i % LimbBits)) % 2

\* the n lowest bits of a are all 0
BLowZero(a, n) ==
    /\ \A i \in 1..(n \div LimbBits) : i > Len(a) \/ a[i] = 0
    /\ (n \div LimbBits) >= Len(a) \/ a[(n \div LimbBits) + 1] % 2^(n % LimbBits) = 0

\* the number of trailing zero bits of a > 0
RECURSIVE NatTz(_)
NatTz(n) == IF n % 2 = 1 THEN 0 ELSE 1 + NatTz(n \div 2)
RECURSIVE BTzFrom(_, _)
BTzFrom(a, i) == IF a[i] = 0 THEN LimbBits + BTzFrom(a, i + 1) ELSE NatTz(a[i])
BTz(a) == BTzFrom(a, 1)

\* restoring division, bits more steps: r < d on entry, q the bits so far
RECURSIVE BDivBits(_, _, _, _)
BDivBits(r, d, bits, q) ==
    IF bits = 0 THEN [q |-> q, r |-> r]
    ELSE LET r2 == BMulSmall(r, 2, 0)
         IN  IF BCmp(r2, d) >= 0
             THEN BDivBits(BSub(r2, d), d, bits - 1, 2 * q + 1)
             ELSE BDivBits(r2, d, bits - 1, 2 * q)

\* floor(r * Limb^limbs / d) for r < d, most significant limb first, and the
\* remainder
RECURSIVE BDivFrac(_, _, _)
BDivFrac(r, d, limbs) ==
    IF limbs = 0 THEN [q |-> << >>, r |-> r]
    ELSE LET top  == BDivBits(r, d, LimbBits, 0)
             rest == BDivFrac(top.r, d, limbs - 1)
         IN  [q |-> Append(rest.q, top.q), r |-> rest.r]

\* A Number: NaN, an infinity, a zero (each of the two with its sign), or
\* (-1)^neg * man * 2^exp with man odd, which names every other Number once
NaN == [cls |-> "nan", neg |-> FALSE, man |-> << >>, exp |-> 0]
Infinity(neg) == [cls |-> "inf", neg |-> neg, man |-> << >>, exp |-> 0]
FZero(neg) == [cls |-> "zero", neg |-> neg, man |-> << >>, exp |-> 0]

\* the Number (-1)^neg * m * 2^e, m of at most Precision bits and e >= MinExp:
\* Infinity from 2^1024 on
Canon(neg, m, e) ==
    IF m = << >> THEN FZero(neg)
    ELSE IF BBitLen(m) + e > MaxBits THEN Infinity(neg)
    ELSE [cls |-> "num", neg |-> neg, man |-> BShr(m, BTz(m)), exp |-> e + BTz(m)]

\* the Number nearest to (-1)^neg * (m + f) * 2^e, ties to the even
\* significand, where 0 < f < 1 when sticky and f = 0 otherwise
Round(neg, m, e, sticky) ==
    LET shift == Max(BBitLen(m) - Precision, MinExp - e)
    IN  IF m = << >> \/ shift <= 0 THEN Canon(neg, m, e)
        ELSE LET q  == BShr(m, shift)
                 up == /\ BBit(m, shift - 1) = 1
                       /\ (sticky \/ ~BLowZero(m, shift - 1) \/ BBit(q, 0) = 1)
             IN  Canon(neg, IF up THEN BAdd(q, <<1>>) ELSE q, e + shift)

\* the Number of the integer n
FromInt(n) == Round(n < 0, BFromNat(IF n < 0 THEN -n ELSE n), 0, FALSE)

\* -a
FNeg(a) == IF a.cls = "nan" THEN a ELSE [a EXCEPT !.neg = ~a.neg]
\* Math.abs(a)
FAbs(a) == IF a.cls = "nan" THEN a ELSE [a EXCEPT !.neg = FALSE]

\* position of the leading bit of a finite non-zero number
Top(a) == BBitLen(a.man) + a.exp

\* big + small for finite non-zero numbers, small so far below big that it
\* only decides the rounding: big is widened to GuardedBits bits, and small
\* is less than one unit of the last of them
AddFar(big, small) ==
    LET s == GuardedBits - BBitLen(big.man)
        m == BShl(big.man, s)
    IN  IF big.neg = small.neg THEN Round(big.neg, m, big.exp - s, TRUE)
        ELSE Round(big.neg, BSub(m, <<1>>), big.exp - s, TRUE)

\* a + c for finite non-zero numbers: the exact sum, rounded
AddNear(a, c) ==
    LET e  == IF a.exp <= c.exp THEN a.exp ELSE c.exp
        ma == BShl(a.man, a.exp - e)
        mc == BShl(c.man, c.exp - e)
        o  == BCmp(ma, mc)
    IN  IF a.neg = c.neg THEN Round(a.neg, BAdd(ma, mc), e, FALSE)
        ELSE IF o = 0 THEN FZero(FALSE)
        ELSE IF o > 0 THEN Round(a.neg, BSub(ma, mc), e, FALSE)
        ELSE Round(c.neg, BSub(mc, ma), e, FALSE)

\* a + c
FAdd(a, c) ==
    IF a.cls = "nan" \/ c.cls = "nan" THEN NaN
    ELSE IF a.cls = "inf" THEN (IF c.cls = "inf" /\ c.neg # a.neg THEN NaN ELSE a)
    ELSE IF c.cls = "inf" THEN c
    ELSE IF a.cls = "zero" THEN (IF c.cls = "zero" THEN FZero(a.neg /\ c.neg) ELSE c)
    ELSE IF c.cls = "zero" THEN a
    ELSE IF Top(a) - Top(c) >= GuardedBits THEN AddFar(a, c)
    ELSE IF Top(c) - Top(a) >= GuardedBits THEN AddFar(c, a)
    ELSE AddNear(a, c)

\* a - c
FSub(a, c) == FAdd(a, FNeg(c))

\* a * c
FMul(a, c) ==
    IF a.cls = "nan" \/ c.cls = "nan" THEN NaN
    ELSE IF a.cls = "inf" \/ c.cls = "inf"
         THEN (IF a.cls = "zero" \/ c.cls = "zero" THEN NaN ELSE Infinity(a.neg # c.neg))
    ELSE IF a.cls = "zero" \/ c.cls = "zero" THEN FZero(a.neg # c.neg)
    ELSE Round(a.neg # c.neg, BMul(a.man, c.man), a.exp + c.exp, FALSE)

\* a / c: the quotient of the significands to QuotientLimbs digits, rounded
FDiv(a, c) ==
    IF a.cls = "nan" \/ c.cls = "nan" THEN NaN
    ELSE IF a.cls = "inf" THEN (IF c.cls = "inf" THEN NaN ELSE Infinity(a.neg # c.neg))
    ELSE IF c.cls = "inf" THEN FZero(a.neg # c.neg)
    ELSE IF c.cls = "zero" THEN (IF a.cls = "zero" THEN NaN ELSE Infinity(a.neg # c.neg))
    ELSE IF a.cls = "zero" THEN FZero(a.neg # c.neg)
    ELSE LET la == BBitLen(a.man)
             lc == BBitLen(c.man)
             n  == BShl(a.man, Precision - la)
             d  == BShl(c.man, Precision - lc + 1)
             r  == BDivFrac(n, d, QuotientLimbs)
         IN  Round(a.neg # c.neg, BTrim(r.q),
                   a.exp - c.exp + la - lc + 1 - QuotientLimbs * LimbBits, r.r # << >>)

\* |a| > |c| for finite non-zero numbers
MagGreater(a, c) ==
    IF Top(a) # Top(c) THEN Top(a) > Top(c)
    ELSE LET e == IF a.exp <= c.exp THEN a.exp ELSE c.exp
         IN  BCmp(BShl(a.man, a.exp - e), BShl(c.man, c.exp - e)) > 0

\* a > c
FGreater(a, c) ==
    IF a.cls = "nan" \/ c.cls = "nan" THEN FALSE
    ELSE IF a.cls = "zero" THEN c.cls # "zero" /\ c.neg
    ELSE IF c.cls = "zero" THEN ~a.neg
    ELSE IF a.neg # c.neg THEN c.neg
    ELSE IF a.cls = "inf" \/ c.cls = "inf"
         THEN (IF a.neg THEN c.cls = "inf" /\ a.cls # "inf" ELSE a.cls = "inf" /\ c.cls # "inf")
    ELSE IF a.neg THEN MagGreater(c, a) ELSE MagGreater(a, c)

\* a === 0, true of both zeros
FIsZero(a) == a.cls = "zero"

\* Number.isNaN(a)
FIsNaN(a) == a.cls = "nan"

-----------------------------------------------------------------------------
(* Base decoder of the approximate path: parseInt inside parseInput *)

\* digit value of a character in radix R, -1 when it is no digit of that
\* radix: 0-9, a-z and A-Z
RadixDigit(ch, R) ==
    LET v == IF ch >= 48 /\ ch <= 57 THEN ch - 48
             ELSE IF ch >= 97 /\ ch <= 122 THEN ch - 87
             ELSE IF ch >= 65 /\ ch <= 90 THEN ch - 55
             ELSE -1
    IN  IF v < R THEN v ELSE -1

\* the white space and line terminators parseInt skips: TAB, LF, VT, FF, CR,
\* SPACE, NO-BREAK SPACE, the space separators, LINE and PARAGRAPH SEPARATOR,
\* and the BYTE ORDER MARK
StrWhiteSpaceChar ==
    {9, 10, 11, 12, 13, 32, 160, 5760} \cup (8192..8202)
        \cup {8232, 8233, 8239, 8287, 12288, 65279}

\* the leading white space is dropped
RECURSIVE TrimLeft(_)
TrimLeft(s) == IF Len(s) > 0 /\ s[1] \in StrWhiteSpaceChar THEN TrimLeft(Tail(s)) ELSE s

\* the digit values of the longest prefix of s made of digits of radix R
RECURSIVE PrefixDigits(_, _)
PrefixDigits(s, R) ==
    IF s = << >> \/ RadixDigit(Head(s), R) < 0 THEN << >>
    ELSE <<RadixDigit(Head(s), R)>> \o PrefixDigits(Tail(s), R)

\* the leading zeros are skipped
RECURSIVE SkipZeros(_)
SkipZeros(ds) == IF ds # << >> /\ Head(ds) = 0 THEN SkipZeros(Tail(ds)) ELSE ds

\* R^n
RECURSIVE BPow(_, _)
BPow(R, n) ==
    IF n = 0 THEN <<1>>
    ELSE LET h == BPow(R, n \div 2)
         IN  IF n % 2 = 0 THEN BMul(h, h) ELSE BMulSmall(BMul(h, h), R, 0)

\* the integer whose digits in radix R are ds, most significant first: the
\* value of the upper half times R^h plus the value of the h lower digits
RECURSIVE DigitsValue(_, _)
DigitsValue(ds, R) ==
    IF ds = << >> THEN << >>
    ELSE IF Len(ds) = 1 THEN BFromNat(ds[1])
    ELSE LET h == Len(ds) \div 2
         IN  BAdd(BMul(DigitsValue(SubSeq(ds, 1, Len(ds) - h), R), BPow(R, h)),
                  DigitsValue(SubSeq(ds, Len(ds) - h + 1, Len(ds)), R))

\* the largest multiplier of a part: 0xFFFFFFFF / 36
MaximumMultiplier == 119304647

\* one part of the digits, from ds[i]: digits are taken while the multiplier,
\* times R, stays within MaximumMultiplier (multiplier * R is compared without
\* being computed)
RECURSIVE ParsePart(_, _, _, _, _)
ParsePart(ds, R, i, part, multiplier) ==
    IF i > Len(ds) \/ multiplier > MaximumMultiplier \div R
    THEN [next |-> i, part |-> part, multiplier |-> multiplier]
    ELSE ParsePart(ds, R, i + 1, part * R + ds[i], multiplier * R)

\* a radix other than 2, 4, 8, 10, 16, 32: the engine (V8) reads the digits
\* in parts of 32 bits and computes v = v * multiplier + part in Numbers,
\* so that every part rounds
RECURSIVE ParseGeneric(_, _, _, _)
ParseGeneric(ds, R, i, v) ==
    IF i > Len(ds) THEN v
    ELSE LET c == ParsePart(ds, R, i, 0, 1)
         IN  ParseGeneric(ds, R, c.next,
                          FAdd(FMul(v, FromInt(c.multiplier)), FromInt(c.part)))

\* parseInt(string, radix) for a radix in 2..36: leading white space and a
\* sign are skipped, 0x is skipped for radix 16, the longest prefix of valid
\* digits is read, and NaN is returned when that prefix is empty.  In radix
\* 10 and in the powers of two the result is the Number nearest to the
\* integer read; parseInt("-0") is the Number -0
ValueOfDigits(ds, R) ==
    IF R \in {2, 4, 8, 10, 16, 32}
    THEN Round(FALSE, DigitsValue(ds, R), 0, FALSE)
    ELSE ParseGeneric(ds, R, 1, FZero(FALSE))

\* the sign and, for radix 16, the prefix 0x or 0X dropped
Unsigned(t) == IF Len(t) > 0 /\ t[1] \in {45, 43} THEN Tail(t) ELSE t

Unprefixed(u, R) ==
    IF R = 16 /\ Len(u) >= 2 /\ u[1] = 48 /\ u[2] \in {120, 88}
    THEN Tail(Tail(u)) ELSE u

Negated(neg, v) == IF neg THEN FNeg(v) ELSE v

SignedValue(neg, ds, R) ==
    IF ds = << >> THEN NaN
    ELSE Negated(neg, ValueOfDigits(SkipZeros(ds), R))

parseIntTrimmed(t, R) ==
    SignedValue(Len(t) > 0 /\ t[1] = 45,
                PrefixDigits(Unprefixed(Unsigned(t), R), R), R)

parseInt(s, R) == parseIntTrimmed(TrimLeft(s), R)

\* parseInput, lines 22-33, for one entry; line 22 throws for null, for a
\* missing value and for a base that is missing or falsy: the number 0 is,
\* the string "0" is not
parsedEntry(yv) ==
    [status |-> IF FIsNaN(yv) THEN "CouldNotParse" ELSE "ok", val |-> yv]

DecodeEntryApprox(e) ==
    IF e.form # "full" \/ (e.base.num = 0 /\ ~e.base.text)
    THEN [status |-> "InvalidEntry", val |-> NaN]
    ELSE IF ~IsIntegerBase(e.base) \/ e.base.num < 2 \/ e.base.num > 36
         THEN [status |-> "UnsupportedBase", val |-> NaN]
    ELSE parsedEntry(parseInt(e.value, e.base.num))

-----------------------------------------------------------------------------
(* Rational numbers: gcd, makeFrac, add, sub, mul, div *)

\* the value standing for the "Zero denominator" error thrown by makeFrac;
\* add, sub, mul and div of it are it again, as a throw leaves the expression
Thrown == [num |-> 0, den |-> 0]

RECURSIVE gcd(_, _)
gcd(a, c) == IF c = 0 THEN Abs(a) ELSE gcd(c, BigRem(a, c))

\* a faulty variant: the sign of the denominator is not moved to the numerator
makeFracKeepSign(num, den) ==
    IF den = 0 THEN Thrown
    ELSE [num |-> BigDiv(num, gcd(num, den)), den |-> BigDiv(den, gcd(num, den))]

makeFrac(num, den) ==
    IF den = 0 THEN Thrown
    ELSE LET g  == gcd(num, den)
             n1 == BigDiv(num, g)
             d1 == BigDiv(den, g)
         IN  IF d1 < 0 THEN [num |-> -n1, den |-> -d1]
                       ELSE [num |-> n1, den |-> d1]

add(a, c) == makeFrac(a.num * c.den + c.num * a.den, a.den * c.den)
sub(a, c) == makeFrac(a.num * c.den - c.num * a.den, a.den * c.den)
mul(a, c) == makeFrac(a.num * c.num, a.den * c.den)
div(a, c) == makeFrac(a.num * c.den, a.den * c.num)

Zero == makeFrac(0, 1)

-----------------------------------------------------------------------------
(* Exact solver: solve(matrix, rhs) of src/index2.js.  Rows and columns are  *)
(* numbered from 0 as in the source; At reads an entry.                      *)

At(m, r, c) == m[r + 1][c + 1]
Size(m) == Len(m)

\* a faulty variant: the last such row
findPivotLast(m, c) ==
    LET n == Size(m)
        nz == {r \in c..(n - 1) : At(m, r, c).num # 0}
    IN  IF nz = {} THEN c ELSE CHOOSE r \in nz : \A q \in nz : r >= q

\* lines 64-69: the first row from col on whose entry in column col has a
\* non-zero numerator, col itself when there is none
findPivot(m, c) ==
    LET n == Size(m)
        nz == {r \in c..(n - 1) : At(m, r, c).num # 0}
    IN  IF nz = {} THEN c ELSE CHOOSE r \in nz : \A q \in nz : r <= q

\* [a[i], a[j]] = [a[j], a[i]] on 0-based positions
swap(a, i, j) ==
    [p \in 1..Len(a) |-> IF p = i + 1 THEN a[j + 1]
                         ELSE IF p = j + 1 THEN a[i + 1] ELSE a[p]]

\* a faulty variant: columns from c + 1 on only, the entry in column c is left
eliminateRowAfter(row, pivotRow, c) ==
    LET factor == div(row[c + 1], pivotRow[c + 1])
    IN  [p \in 1..Len(row) |->
            IF p > c + 1 THEN sub(row[p], mul(factor, pivotRow[p])) ELSE row[p]]

\* lines 81-85 on one row below the pivot row: columns c..n-1
eliminateRow(row, pivotRow, c) ==
    LET factor == div(row[c + 1], pivotRow[c + 1])
    IN  [p \in 1..Len(row) |->
            IF p >= c + 1 THEN sub(row[p], mul(factor, pivotRow[p])) ELSE row[p]]

\* lines 78-87: the rows below c whose entry in column c is non-zero are
\* combined with row c, and their rhs entries with rhs[c]
eliminateBelow(m, v, c) ==
    LET touched(r) == r > c /\ At(m, r, c).num # 0
        factor(r)  == div(At(m, r, c), At(m, c, c))
    IN  [matrix |-> [p \in 1..Len(m) |->
                        IF touched(p - 1) THEN eliminateRow(m[p], m[c + 1], c)
                        ELSE m[p]],
         rhs    |-> [p \in 1..Len(v) |->
                        IF touched(p - 1)
                        THEN sub(v[p], mul(factor(p - 1), v[c + 1]))
                        ELSE v[p]],
         threw  |-> \E r \in 0..(Len(m) - 1) : touched(r) /\ factor(r) = Thrown]

\* lines 93-96: sum of matrix[i][j] * x[j] for j = from..n-1, added to acc
RECURSIVE rowSum(_, _, _, _, _)
rowSum(m, xs, i, from, acc) ==
    IF from > Size(m) - 1 THEN acc
    ELSE rowSum(m, xs, i, from + 1, add(acc, mul(At(m, i, from), xs[from + 1])))

\* lines 92-98: x[i] for i down to 0; the division throws on a zero diagonal
RECURSIVE backSubstitute(_, _, _, _)
backSubstitute(m, v, i, xs) ==
    IF i < 0 THEN [threw |-> FALSE, x |-> xs]
    ELSE LET xi == div(sub(v[i + 1], rowSum(m, xs, i, i + 1, Zero)), At(m, i, i))
         IN  IF xi = Thrown THEN [threw |-> TRUE, x |-> xs]
             ELSE backSubstitute(m, v, i - 1, [xs EXCEPT ![i + 1] = xi])

\* lines 64-75 for column col
PivotSwap ==
    /\ pc = "pivot"
    /\ pivot' = findPivot(matrix, col)
    /\ matrix' = swap(matrix, col, pivot')
    /\ rhs' = swap(rhs, col, pivot')
    /\ pc' = "eliminate"
    /\ UNCHANGED <<err, given, col, x, calls, x1, decoderVars, approxVars, mainVars>>

\* lines 78-87 for column col, and the step of the column loop
Eliminate ==
    /\ pc = "eliminate"
    /\ LET e == eliminateBelow(matrix, rhs, col)
       IN  IF e.threw
           THEN /\ pc' = "error" /\ err' = "ZeroDenominator"
                /\ UNCHANGED <<matrix, rhs, col>>
           ELSE /\ matrix' = e.matrix
                /\ rhs' = e.rhs
                /\ col' = col + 1
                /\ pc' = IF col + 1 < Size(matrix) THEN "pivot" ELSE "back"
                /\ err' = err
    /\ UNCHANGED <<given, pivot, x, calls, x1, decoderVars, approxVars, mainVars>>

\* lines 91-100
BackSubstitute ==
    /\ pc = "back"
    /\ LET r == backSubstitute(matrix, rhs, Size(matrix) - 1,
                               [p \in 1..Size(matrix) |-> Zero])
       IN  IF r.threw
           THEN /\ pc' = "error" /\ err' = "ZeroDenominator" /\ x' = x
           ELSE /\ pc' = "solved" /\ err' = err /\ x' = r.x
    /\ UNCHANGED <<given, matrix, rhs, col, pivot, calls, x1, decoderVars, approxVars, mainVars>>

\* the caller calls solve again with the same arrays (which the first call
\* has mutated in place)
SolveAgain ==
    /\ pc = "solved"
    /\ calls < MaxCalls
    /\ calls' = calls + 1
    /\ x1' = IF calls = 1 THEN x ELSE x1
    /\ col' = 0
    /\ x' = << >>
    /\ pc' = IF Size(matrix) > 0 THEN "pivot" ELSE "back"
    /\ UNCHANGED <<err, given, matrix, rhs, pivot, decoderVars, approxVars, mainVars>>

\* sizes and entries of the systems handed to solve
Sizes == {1, 2, 3}
EntryValues(n) ==
    IF n <= 2 THEN {makeFrac(0, 1), makeFrac(1, 1), makeFrac(-2, 1), makeFrac(3, 1), makeFrac(1, 2)}
    ELSE {makeFrac(0, 1), makeFrac(1, 1), makeFrac(-2, 1)}
RhsVectors(n) ==
    IF n <= 2 THEN [1..n -> {makeFrac(0, 1), makeFrac(1, 1), makeFrac(-3, 2)}]
    ELSE {<<makeFrac(1, 1), makeFrac(2, 1), makeFrac(4, 1)>>,
          <<makeFrac(0, 1), makeFrac(-1, 1), makeFrac(0, 1)>>}

InitExact ==
    /\ pc = "pivot"
    /\ err = ""
    /\ \E n \in Sizes :
          /\ matrix \in [1..n -> [1..n -> EntryValues(n)]]
          /\ rhs \in RhsVectors(n)
    /\ given = [matrix |-> matrix, rhs |-> rhs]
    /\ col = 0
    /\ pivot = 0
    /\ x = << >>
    /\ calls = 1
    /\ x1 = << >>
    /\ IdleDecoder /\ IdleApprox /\ IdleMain

NextExact == PivotSwap \/ Eliminate \/ BackSubstitute \/ SolveAgain

SpecExact == InitExact /\ [][NextExact]_vars

\* canonical form: positive denominator, numerator and denominator coprime
Canonical(f) ==
    /\ f.den > 0
    /\ \A d \in 2..f.den : ~(f.den % d = 0 /\ Abs(f.num) % d = 0)

\* numerators and denominators the constructor is tried on
FracRange == -8..8
\* canonical operands the four operations are tried on
Operands == {makeFrac(n, d) : n \in -3..3, d \in 1..3}

\* makeFrac by its contract, on the whole of FracRange
MakeFracContract ==
    /\ \A n \in FracRange : makeFrac(n, 0) = Thrown
    /\ \A n \in FracRange, d \in FracRange \ {0} :
          /\ Canonical(makeFrac(n, d))
          /\ makeFrac(n, d).num * d = n * makeFrac(n, d).den
    /\ makeFrac(4, -8) = [num |-> -1, den |-> 2]
    /\ makeFrac(0, 5) = [num |-> 0, den |-> 1]

\* add, sub, mul and div return canonical values on canonical operands
OperationsCanonical ==
    \A a \in Operands, c \in Operands :
        /\ Canonical(add(a, c)) /\ Canonical(sub(a, c)) /\ Canonical(mul(a, c))
        /\ IF c.num = 0 THEN div(a, c) = Thrown ELSE Canonical(div(a, c))

\* C3: makeFrac throws for a zero denominator and otherwise returns the
\* canonical form of num/den (positive denominator, lowest terms); the four
\* operations keep it; and every entry of the matrix, of the rhs and of the
\* solution is canonical in every state solve passes through.
C3_CanonicalForm ==
    /\ (pc = "pivot" /\ col = 0 /\ calls = 1) => (MakeFracContract /\ OperationsCanonical)
    /\ \A r \in 1..Len(matrix) : \A c \in 1..Len(matrix[r]) : Canonical(matrix[r][c])
    /\ \A r \in 1..Len(rhs) : Canonical(rhs[r])
    /\ \A i \in 1..Len(x) : Canonical(x[i])

\* C3 witness: solve has returned a solution with a negative proper fraction
\* in it, from a system with a negative entry
C3_Witness ==
    /\ pc = "solved"
    /\ \E i \in 1..Len(x) : x[i].num < 0 /\ x[i].den > 1
    /\ \E r \in 1..Len(matrix) : \E c \in 1..Len(matrix) : given.matrix[r][c].num < 0

\* two rows of the matrix are the same
HasIdenticalRows(m) == \E r \in 1..Len(m), q \in 1..Len(m) : r # q /\ m[r] = m[q]

\* C4: on a matrix with two identical rows the solver ends in a
\* SingularMatrix failure (the exact solver, here)
C4_SingularMatrixFailure ==
    (HasIdenticalRows(given.matrix) /\ pc \in {"error", "solved"})
    => (pc = "error" /\ err = "SingularMatrix")

\* the exact solver returns no coefficient vector for such a matrix: it ends
\* in an error, whose kind C4 leaves open here
ExactNeverSolvesIdenticalRows ==
    HasIdenticalRows(given.matrix) => pc # "solved"

\* C5: a second (and any later) call of solve on the same arrays returns the
\* coefficient vector the first call returned, entry by entry
C5_SecondCallSameResult ==
    (pc = "solved" /\ calls >= 2) => x = x1

\* C5 witness: the second call has returned, the first call had changed the
\* arrays it was given, and the solution has a proper fraction in it
C5_Witness ==
    /\ pc = "solved" /\ calls = 2
    /\ matrix # given.matrix /\ rhs # given.rhs
    /\ \E i \in 1..Len(x) : x[i].den > 1

\* r is the lowest row from c on with a non-zero entry in column c of m
LowestNonZero(m, c, r) ==
    /\ r \in c..(Size(m) - 1)
    /\ At(m, r, c).num # 0
    /\ \A q \in c..(r - 1) : At(m, q, c).num = 0

\* C10: in the step for column col, when some row from col on has a non-zero
\* entry in that column, the lowest such row and its rhs entry change places
\* with row col, so that matrix[col][col] is non-zero when the factors are
\* computed; and once the rows below are eliminated, each has a zero entry in
\* column col.
C10_FirstNonZeroPivot ==
    [][ /\ (pc = "pivot" /\ pc' = "eliminate") =>
            \A r \in col..(Size(matrix) - 1) :
                LowestNonZero(matrix, col, r) =>
                    /\ matrix' = swap(matrix, col, r)
                    /\ rhs' = swap(rhs, col, r)
                    /\ At(matrix', col, col).num # 0
        /\ (pc = "eliminate" /\ pc' \in {"pivot", "back"}) =>
            \A r \in (col + 1)..(Size(matrix) - 1) : At(matrix', r, col).num = 0
      ]_vars

\* C10 witness: a row below col was the pivot and has been swapped into
\* place, in a column after the first
C10_Witness ==
    /\ pc = "eliminate" /\ col > 0 /\ pivot > col
    /\ At(matrix, col, col).num # 0
    /\ At(matrix, pivot, col).num = 0

-----------------------------------------------------------------------------
(* Approximate solver: solveLinearSystem(A, b) of src/index.js.  An array of *)
(* numbers is an object of the heap, named by its position in heap; a        *)
(* matrix is the sequence of the identities of its rows.                     *)

\* the numbers of matrix m (a sequence of row identities) in heap h
Rows(h, m) == [i \in 1..Len(m) |-> h[m[i]]]
Entry(h, m, r, c) == h[m[r + 1]][c + 1]

\* a faulty variant: A.slice(), a new outer array of the same row objects
copyRowsShallow(h, a) == [heap |-> h, refs |-> a]

\* line 68: A.map(row => row.slice()), a new row object for every row
copyRows(h, a) ==
    [heap |-> h \o [i \in 1..Len(a) |-> h[a[i]]],
     refs |-> [i \in 1..Len(a) |-> Len(h) + i]]

\* line 69: b.slice(), a new array object
slice(h, v) == [heap |-> Append(h, h[v]), ref |-> Len(h) + 1]

\* a faulty variant: the scan compares the entries themselves, not their absolute values
maxRowSigned(h, m, k, r, best) ==
    LET n == Len(m)
        val(q) == Entry(h, m, q, k)
        top == {q \in k..(n - 1) : \A t \in k..(n - 1) : ~FGreater(val(t), val(q))}
    IN  CHOOSE q \in top : \A t \in top : q <= t

\* lines 73-81: the scan from row r on, best being the row of the largest
\* absolute value in column k so far; a later row replaces it only when
\* strictly larger
RECURSIVE maxRowFrom(_, _, _, _, _)
maxRowFrom(h, m, k, r, best) ==
    IF r > Len(m) - 1 THEN best
    ELSE IF FGreater(FAbs(Entry(h, m, r, k)), FAbs(Entry(h, m, best, k)))
         THEN maxRowFrom(h, m, k, r + 1, r)
         ELSE maxRowFrom(h, m, k, r + 1, best)

\* lines 93-97 on row i below row k: the new row and the new y[i]
reduceRow(row, pivotRow, k) ==
    LET factor == FDiv(row[k + 1], pivotRow[k + 1])
    IN  [p \in 1..Len(row) |->
            IF p >= k + 1 THEN FSub(row[p], FMul(factor, pivotRow[p])) ELSE row[p]]

reduceY(yv, row, pivotRow, k, i) ==
    FSub(yv[i + 1], FMul(FDiv(row[k + 1], pivotRow[k + 1]), yv[k + 1]))

\* lines 92-98: every row object of m below k is overwritten, and the entries
\* of the array yv below k
reduceBelow(h, m, yv, k) ==
    LET below == {m[p] : p \in (k + 2)..Len(m)}
    IN  [id \in 1..Len(h) |->
            IF id \in below
            THEN reduceRow(h[id], h[m[k + 1]], k)
            ELSE IF id = yv
            THEN [p \in 1..Len(h[yv]) |->
                    IF p > k + 1 THEN reduceY(h[yv], h[m[p]], h[m[k + 1]], k, p - 1)
                    ELSE h[yv][p]]
            ELSE h[id]]

\* line 105: sum of M[i][j] * x[j] for j = from..n-1, added to acc
RECURSIVE rowSumApprox(_, _, _, _, _, _)
rowSumApprox(h, m, xs, i, from, acc) ==
    IF from > Len(m) - 1 THEN acc
    ELSE rowSumApprox(h, m, xs, i, from + 1,
                      FAdd(acc, FMul(Entry(h, m, i, from), xs[from + 1])))

\* lines 103-107
RECURSIVE backSubstituteApprox(_, _, _, _, _)
backSubstituteApprox(h, m, yv, i, xs) ==
    IF i < 0 THEN xs
    ELSE backSubstituteApprox(h, m, yv, i - 1,
            [xs EXCEPT ![i + 1] =
                FDiv(FSub(h[yv][i + 1], rowSumApprox(h, m, xs, i, i + 1, FZero(FALSE))),
                     Entry(h, m, i, i))])

\* lines 66-69: the private copies
CopyInputs ==
    /\ pc = "copy"
    /\ LET cm == copyRows(heap, A)
           cy == slice(cm.heap, b)
       IN  /\ M' = cm.refs
           /\ y' = cy.ref
           /\ heap' = cy.heap
    /\ col' = 0
    /\ pc' = IF Len(A) > 0 THEN "maxrow" ELSE "backsub"
    /\ UNCHANGED <<err, pivot, x, A, b, decoderVars, exactVars, mainVars>>

\* lines 73-89 for column col (k in the source): the row of the largest
\* absolute value is found, the solver throws when that value is 0, and the
\* row and its y entry are swapped into place
PartialPivot ==
    /\ pc = "maxrow"
    /\ pivot' = maxRowFrom(heap, M, col, col + 1, col)
    /\ IF FIsZero(FAbs(Entry(heap, M, pivot', col)))
       THEN /\ pc' = "error" /\ err' = "SingularMatrix"
            /\ UNCHANGED <<heap, M>>
       ELSE /\ pc' = "reduce" /\ err' = err
            /\ M' = swap(M, col, pivot')
            /\ heap' = [heap EXCEPT ![y] = swap(heap[y], col, pivot')]
    /\ UNCHANGED <<col, x, A, b, y, decoderVars, exactVars, mainVars>>

\* lines 92-98 for column col, and the step of the column loop
Reduce ==
    /\ pc = "reduce"
    /\ heap' = reduceBelow(heap, M, y, col)
    /\ col' = col + 1
    /\ pc' = IF col + 1 < Len(M) THEN "maxrow" ELSE "backsub"
    /\ UNCHANGED <<err, pivot, x, A, b, M, y, decoderVars, exactVars, mainVars>>

\* lines 102-108
BackSubstituteApprox ==
    /\ pc = "backsub"
    /\ x' = backSubstituteApprox(heap, M, y, Len(M) - 1, [p \in 1..Len(M) |-> FZero(FALSE)])
    /\ pc' = "returned"
    /\ UNCHANGED <<err, col, pivot, heap, A, b, M, y, decoderVars, exactVars, mainVars>>

\* entries and right-hand sides of the systems handed to solveLinearSystem
ApproxEntries(n) ==
    IF n <= 2 THEN {FZero(FALSE), FromInt(1), FromInt(-2), FromInt(3), FromInt(-3), FromInt(49)}
    ELSE {FZero(FALSE), FromInt(1), FromInt(-2)}
ApproxVectors(n) ==
    IF n = 1 THEN {<<FromInt(5)>>, <<FZero(FALSE)>>}
    ELSE IF n = 2 THEN {<<FromInt(5), FromInt(7)>>, <<FZero(FALSE), FromInt(-1)>>}
    ELSE {<<FromInt(5), FromInt(7), FromInt(11)>>, <<FZero(FALSE), FZero(FALSE), FromInt(1)>>}

InitApprox ==
    /\ pc = "copy"
    /\ err = ""
    /\ \E n \in Sizes :
          /\ A = [i \in 1..n |-> i]
          /\ b = n + 1
          /\ \E rows \in [1..n -> [1..n -> ApproxEntries(n)]], v \in ApproxVectors(n) :
                /\ heap = rows \o <<v>>
                /\ given = [matrix |-> rows, rhs |-> v]
    /\ M = << >>
    /\ y = 0
    /\ col = 0
    /\ pivot = 0
    /\ x = << >>
    /\ matrix = << >> /\ rhs = << >> /\ calls = 0 /\ x1 = << >>
    /\ IdleDecoder /\ IdleMain

NextApprox == CopyInputs \/ PartialPivot \/ Reduce \/ BackSubstituteApprox

SpecApprox == InitApprox /\ [][NextApprox]_vars

\* the approximate solver does fail with SingularMatrix on a matrix with two
\* identical rows
ApproxIdenticalRowsSingular ==
    (HasIdenticalRows(given.matrix) /\ pc \in {"returned", "error"})
    => (pc = "error" /\ err = "SingularMatrix")

\* C6: in every state of a call of solveLinearSystem, and after it has
\* returned or thrown, the rows of A, their order and the entries of b are
\* those the caller passed
C6_InputsUnchanged ==
    /\ A = [i \in 1..Len(A) |-> i]
    /\ Rows(heap, A) = given.matrix
    /\ heap[b] = given.rhs

\* C6 witness: the call has returned after swapping and combining rows of
\* its private copy, which now differs from A in its rows and their order
C6_Witness ==
    /\ pc = "returned"
    /\ pivot > 0
    /\ Rows(heap, M) # given.matrix
    /\ \A i \in 1..Len(M) : heap[M[i]] # given.matrix[i]
    /\ heap[y] # given.rhs

\* r holds the largest absolute value of column c among the rows from c on
LargestInColumn(h, m, c, r) ==
    /\ r \in c..(Len(m) - 1)
    /\ \A q \in c..(Len(m) - 1) :
          ~FGreater(FAbs(Entry(h, m, q, c)), FAbs(Entry(h, m, r, c)))

\* C9: in the step for column col, the solver throws SingularMatrix exactly
\* when every entry of the column from row col on is 0; otherwise a row with
\* the largest absolute value of the column changes places with row col, its
\* y entry with y[col], and the entry then at M[col][col] is at least as
\* large in absolute value as every entry below it.
C9_PartialPivoting ==
    [][ (pc = "maxrow") =>
          /\ (pc' = "error" /\ err' = "SingularMatrix")
                <=> (\A r \in col..(Len(M) - 1) : FIsZero(Entry(heap, M, r, col)))
          /\ (pc' = "reduce") =>
                /\ \E r \in col..(Len(M) - 1) :
                      /\ LargestInColumn(heap, M, col, r)
                      /\ M' = swap(M, col, r)
                      /\ heap'[y] = swap(heap[y], col, r)
                /\ \A r \in (col + 1)..(Len(M) - 1) :
                      ~FGreater(FAbs(Entry(heap', M', r, col)),
                                FAbs(Entry(heap', M', col, col)))
      ]_vars

\* C9 witness: in a column after the first, a row below col held the largest
\* absolute value, a negative entry, and is now in place
C9_Witness ==
    /\ pc = "reduce" /\ col > 0 /\ pivot > col
    /\ FGreater(FZero(FALSE), Entry(heap, M, col, col))
    /\ \E r \in (col + 1)..(Len(M) - 1) : FGreater(Entry(heap, M, r, col), FZero(FALSE))

-----------------------------------------------------------------------------
(* The input document.  doc.entries lists the top-level properties other    *)
(* than "keys" in the order Object.keys gives them; each is a key (a        *)
(* string) and an entry.  doc.stated tells how the document states keys.n    *)
(* and keys.k: as a "number", as a "string" that is not empty (a numeral),   *)
(* as the "empty" string, as "null", or not at all ("missing"); doc.n and    *)
(* doc.k are the number stated, by the number or the numeral, and 0 for the  *)
(* other three.                                                              *)

\* !v of a keys.n or keys.k: the number 0, the empty string, null and
\* undefined are falsy; the string "0" is not
IsFalsy(v, how) == how \in {"empty", "null", "missing"} \/ (how = "number" /\ v = 0)

\* /^\d+$/.test(kname)
IsDigits(key) == Len(key) > 0 /\ \A i \in 1..Len(key) : indexOf(key[i]) \in 0..9

\* Number(kname) of a string of decimal digits: the nearest Number
NumberOf(key) == Round(FALSE, DigitsValue(PrefixDigits(key, 10), 10), 0, FALSE)

\* the digits of n >= 0 in base B, most significant first
RECURSIVE digitsOf(_, _)
digitsOf(n, B) ==
    IF n < B THEN <<DIGITS[n + 1]>>
    ELSE digitsOf(n \div B, B) \o <<DIGITS[(n % B) + 1]>>

\* n.toString(B): a negative number is written with a minus sign
toStringInBase(n, B) == IF n < 0 THEN <<45>> \o digitsOf(-n, B) ELSE digitsOf(n, B)

\* the property key of the number i >= 0: its decimal form
propertyKey(i) == digitsOf(i, 10)

\* data[i]: the positions of doc.entries whose key is the property key of i
Lookup(d, i) == {p \in 1..Len(d.entries) : d.entries[p].key = propertyKey(i)}

-----------------------------------------------------------------------------
(* The function main of src/index2.js, lines 103-139, called on a document  *)

\* lines 109-115: the first k points, or the first error
RECURSIVE decodePoints(_, _, _)
decodePoints(d, i, pts) ==
    IF i > d.k THEN [status |-> "ok", points |-> pts]
    ELSE IF Lookup(d, i) = {} THEN [status |-> "TypeError", points |-> pts]
    ELSE LET e == d.entries[CHOOSE p \in Lookup(d, i) : TRUE]
             r == DecodeEntryExact(e)
         IN  IF r.status # "ok" THEN [status |-> r.status, points |-> pts]
             ELSE decodePoints(d, i + 1, Append(pts, [x |-> i, y |-> r.val]))

\* lines 124-128: 1, x, x^2, ..., x^(k-1) as rationals
vandermondeRow(xi, k) == [j \in 1..k |-> makeFrac(Pow(xi, j - 1), 1)]

\* console.log of a BigInt writes its decimal digits followed by n (110)
inspectBigInt(v) ==
    (IF v < 0 THEN <<45>> ELSE << >>) \o digitsOf(Abs(v), 10) \o <<110>>

DecodePoints ==
    /\ pc = "decode"
    /\ LET r == decodePoints(doc, 1, << >>)
       IN  IF r.status = "ok"
           THEN /\ points' = r.points /\ pc' = "vandermonde" /\ err' = err
           ELSE /\ points' = points /\ pc' = "error" /\ err' = r.status
    /\ UNCHANGED <<col, pivot, x, poly, doc, printed, exitCode,
                   decoderVars, exactVars, approxVars>>

\* line 121, Array(k).fill(makeFrac(0n)): Array of a number is an array of
\* that length, Array of anything else (a string, null, undefined) is the
\* array of that one element
filledArray(d) ==
    IF d.stated.k = "number" THEN [i \in 1..d.k |-> makeFrac(0, 1)]
    ELSE <<makeFrac(0, 1)>>

\* lines 123-130 for b: b[i] = makeFrac(points[i].y) for every i below k
rhsOf(d, pts) ==
    [i \in 1..Max(d.k, Len(filledArray(d))) |->
        IF i <= d.k THEN makeFrac(pts[i].y, 1) ELSE filledArray(d)[i]]

\* lines 118-133: the system is built and solve is called on it.  Array.from
\* of a negative length is empty; Array(k) of line 121 throws a RangeError
\* for a negative number k, not for a k stated otherwise
BuildVandermonde ==
    /\ pc = "vandermonde"
    /\ IF doc.k < 0 /\ doc.stated.k = "number"
       THEN /\ pc' = "error" /\ err' = "RangeError"
            /\ UNCHANGED <<matrix, rhs, given, calls, col>>
       ELSE /\ matrix' = [i \in 1..doc.k |-> vandermondeRow(points[i].x, doc.k)]
            /\ rhs' = rhsOf(doc, points)
            /\ given' = [matrix |-> matrix', rhs |-> rhs']
            /\ calls' = 1
            /\ col' = 0
            /\ pc' = IF doc.k > 0 THEN "pivot" ELSE "back"
            /\ err' = err
    /\ UNCHANGED <<pivot, x, x1, decoderVars, approxVars, mainVars>>

\* lines 136-138: the constant term is written and main returns; coeff[0] of
\* an empty vector is undefined, and reading its num throws a TypeError
WriteConstant ==
    /\ pc = "solved"
    /\ IF x = << >>
       THEN /\ pc' = "error" /\ err' = "TypeError" /\ printed' = printed
       ELSE /\ printed' = Append(printed, inspectBigInt(BigDiv(x[1].num, x[1].den)))
            /\ pc' = "returned" /\ err' = err
    /\ UNCHANGED <<col, pivot, x, poly, doc, points, exitCode,
                   decoderVars, exactVars, approxVars>>

\* P(at) for the coefficients c[1] + c[2] x + ...
Eval(c, at) ==
    LET RECURSIVE term(_)
        term(j) == IF j > Len(c) THEN 0 ELSE c[j] * Pow(at, j - 1) + term(j + 1)
    IN  term(1)

\* thresholds, coefficients and bases of the round trip
Thresholds == 0..MaxK
Coefficients == -2..2
Bases == {2, 16, 36}

\* the document holding the shares (i, P(i)), i = 1..k, each in its own base
Shares(c, bases) ==
    [n |-> Len(c), k |-> Len(c), stated |-> [n |-> "number", k |-> "number"],
     entries |-> [i \in 1..Len(c) |->
                    [key |-> propertyKey(i), form |-> "full",
                     base |-> [num |-> bases[i], den |-> 1, text |-> TRUE],
                     value |-> toStringInBase(Eval(c, i), bases[i])]]]

\* the documents of the round trip: the shares of a polynomial
SharesDocument ==
    /\ \E k \in Thresholds :
          /\ poly \in [1..k -> Coefficients]
          /\ \E bases \in [1..k -> Bases] : doc = Shares(poly, bases)
    /\ points = << >> /\ printed = << >> /\ exitCode = -1
    /\ col = 0 /\ pivot = 0 /\ x = << >>
    /\ IdleDecoder /\ IdleExact /\ IdleApprox

\* thresholds a document can state that are not the number of its shares: a
\* negative number, "-1" and "0" as strings, the empty string, null, and none
RestatedThresholds ==
    {[k |-> -1, how |-> "number"], [k |-> -1, how |-> "string"],
     [k |-> 0, how |-> "string"], [k |-> 0, how |-> "empty"],
     [k |-> 0, how |-> "null"], [k |-> 0, how |-> "missing"]}

\* the shares of a polynomial under such a threshold
RestatedDocument ==
    /\ \E k \in Thresholds, t \in RestatedThresholds :
          /\ poly \in [1..k -> Coefficients]
          /\ \E bases \in [1..k -> Bases] :
                doc = [Shares(poly, bases) EXCEPT !.k = t.k, !.stated.k = t.how]
    /\ points = << >> /\ printed = << >> /\ exitCode = -1
    /\ col = 0 /\ pivot = 0 /\ x = << >>
    /\ IdleDecoder /\ IdleExact /\ IdleApprox

InitMainExact ==
    /\ pc = "decode"
    /\ err = ""
    /\ (SharesDocument \/ RestatedDocument)

NextMainExact ==
    \/ DecodePoints \/ BuildVandermonde
    \/ PivotSwap \/ Eliminate \/ BackSubstitute
    \/ WriteConstant

\* main called, by itself, on the shares of a polynomial
SpecMainExact == InitMainExact /\ [][NextMainExact]_vars

\* every share P(1), ..., P(k) is non-negative
SharesNonNegative == \A i \in 1..Len(poly) : Eval(poly, i) >= 0

\* main, called on k > 0 shares that are all non-negative, whatever the base
\* of each, writes P(0), the constant term of the solution being P(0)/1
MainRecoversConstant ==
    (pc \in {"returned", "error"} /\ doc.k = Len(poly) /\ Len(poly) > 0
        /\ SharesNonNegative) =>
        /\ pc = "returned"
        /\ x # << >> /\ x[1] = [num |-> poly[1], den |-> 1]
        /\ printed = <<inspectBigInt(poly[1])>>

\* main, called on shares of which one is negative, throws on its minus sign
MainThrowsOnNegativeShare ==
    (pc \in {"returned", "error"} /\ doc.k = Len(poly) /\ ~SharesNonNegative) =>
        (pc = "error" /\ err = "InvalidDigit" /\ printed = << >>)

\* main, called with k = 0 or without a k, solves the empty system and
\* throws on coeff[0]
MainThrowsOnNoShare ==
    (pc \in {"returned", "error"} /\ doc.k = 0) =>
        (pc = "error" /\ err = "TypeError" /\ printed = << >>)

\* main, called with a negative k, throws: the RangeError of Array(k) for a
\* number, the TypeError of coeff[0] for a string
MainThrowsOnNegativeThreshold ==
    (pc \in {"returned", "error"} /\ doc.k < 0) =>
        /\ pc = "error" /\ printed = << >>
        /\ err = (IF doc.stated.k = "number" THEN "RangeError" ELSE "TypeError")

-----------------------------------------------------------------------------
(* The script src/index2.js as node runs it *)

\* the names the script declares with const, with the line of each
LexicalDeclarations ==
    << [name |-> "fs", line |-> 3], [name |-> "path", line |-> 4],
       [name |-> "DIGITS", line |-> 6],
       [name |-> "fs", line |-> 146], [name |-> "path", line |-> 147] >>

\* the functions the script declares, with the line of each
FunctionDeclarations ==
    << [name |-> "parseInBase", line |-> 9], [name |-> "gcd", line |-> 22],
       [name |-> "makeFrac", line |-> 32], [name |-> "add", line |-> 44],
       [name |-> "sub", line |-> 47], [name |-> "mul", line |-> 50],
       [name |-> "div", line |-> 53], [name |-> "solve", line |-> 58],
       [name |-> "main", line |-> 103], [name |-> "parseInput", line |-> 149],
       [name |-> "buildSystem", line |-> 192],
       [name |-> "solveLinearSystem", line |-> 209],
       [name |-> "main", line |-> 255] >>

\* the early error of a script: a name declared with const twice, or with
\* const and as a function (a function may be declared twice)
EarlyError ==
    \/ \E i \in 1..Len(LexicalDeclarations), j \in 1..Len(LexicalDeclarations) :
          i < j /\ LexicalDeclarations[i].name = LexicalDeclarations[j].name
    \/ \E i \in 1..Len(LexicalDeclarations), f \in 1..Len(FunctionDeclarations) :
          LexicalDeclarations[i].name = FunctionDeclarations[f].name

\* node compiles the script before it runs any of it: an early error is a
\* SyntaxError thrown before the first statement, so that main() of line 141
\* is not called
LoadScript ==
    /\ pc = "script"
    /\ IF EarlyError
       THEN pc' = "error" /\ err' = "SyntaxError"
       ELSE pc' = "decode" /\ err' = err
    /\ UNCHANGED <<col, pivot, x, poly, doc, points, printed, exitCode,
                   decoderVars, exactVars, approxVars>>

\* an error nothing catches ends the process with status 1
Uncaught ==
    /\ pc = "error"
    /\ exitCode' = 1
    /\ pc' = "exit"
    /\ UNCHANGED <<err, col, pivot, x, poly, doc, points, printed,
                   decoderVars, exactVars, approxVars>>

InitRoundTrip ==
    /\ pc = "script"
    /\ err = ""
    /\ SharesDocument

NextRoundTrip == LoadScript \/ Uncaught

\* node src/index2.js on the shares of a polynomial
SpecRoundTrip == InitRoundTrip /\ [][NextRoundTrip]_vars

\* C1: for every polynomial with integer coefficients, whatever the base of
\* each share, the run ends having written P(0), the constant term of the
\* solution being P(0)/1
C1_RoundTripAnyPolynomial ==
    (pc = "exit") =>
        /\ exitCode = 0
        /\ x # << >> /\ x[1] = [num |-> poly[1], den |-> 1]
        /\ printed = <<inspectBigInt(poly[1])>>

-----------------------------------------------------------------------------
(* Entry point of the approximate path: parseInput, buildSystem and main of  *)
(* src/index.js                                                              *)

\* lines 16-35: the entries in order; an entry whose key is not all digits
\* is skipped, the first bad entry throws
RECURSIVE collectPoints(_, _, _)
pushPoint(d, p, pts, r) ==
    IF r.status # "ok" THEN [status |-> r.status, points |-> pts]
    ELSE collectPoints(d, p + 1,
            Append(pts, [x |-> NumberOf(d.entries[p].key), y |-> r.val]))

collectPoints(d, p, pts) ==
    IF p > Len(d.entries) THEN [status |-> "ok", points |-> pts]
    ELSE IF ~IsDigits(d.entries[p].key) THEN collectPoints(d, p + 1, pts)
    ELSE pushPoint(d, p, pts, DecodeEntryApprox(d.entries[p]))

\* line 42: points.sort((a, b) => a.x - b.x), a stable sort: a point goes
\* after the points whose x is not greater than its own
RECURSIVE sortByX(_)
sortByX(pts) ==
    IF Len(pts) <= 1 THEN pts
    ELSE LET last   == pts[Len(pts)]
             sorted == sortByX(SubSeq(pts, 1, Len(pts) - 1))
             before == SelectSeq(sorted, LAMBDA q : ~FGreater(q.x, last.x))
             after  == SelectSeq(sorted, LAMBDA q : FGreater(q.x, last.x))
         IN  before \o <<last>> \o after

\* lines 37-44: too few points is an error, the points are returned sorted
checkAndSort(d, r) ==
    IF r.status # "ok" THEN [status |-> r.status, points |-> << >>]
    ELSE IF Len(r.points) < d.k
         THEN [status |-> "NotEnoughPoints", points |-> << >>]
    ELSE [status |-> "ok", points |-> sortByX(r.points)]

\* lines 5-45; a keys.n or keys.k that is missing or falsy is an error;
\* otherwise n and k are Number(keys.n) and Number(keys.k)
parseInput(d) ==
    IF IsFalsy(d.n, d.stated.n) \/ IsFalsy(d.k, d.stated.k)
    THEN [status |-> "MissingKeys", points |-> << >>]
    ELSE checkAndSort(d, collectPoints(d, 1, << >>))

\* lines 54-58: the row of k numbers pow, pow * xi, (pow * xi) * xi, ...
RECURSIVE powersFrom(_, _, _)
powersFrom(pow, xi, k) ==
    IF k = 0 THEN << >> ELSE <<pow>> \o powersFrom(FMul(pow, xi), xi, k - 1)

\* lines 52-58: the row of points[i], pow starting at 1
powerRow(xi, k) == powersFrom(FromInt(1), xi, k)

\* a faulty variant: the catch clause reports the error and does not call
\* process.exit, so that the process ends with status 0
exitStatusWhenSwallowed == 1 - 1

\* process.exit(1) of the catch clause, line 146
ExitStatusOfError == 1

\* line 114
ParseInput ==
    /\ pc = "parse"
    /\ \E r \in {parseInput(doc)} :
           /\ points' = r.points
           /\ err' = IF r.status = "ok" THEN "" ELSE r.status
           /\ pc' = IF r.status = "ok" THEN "build" ELSE "error"
    /\ UNCHANGED <<col, pivot, x, poly, doc, printed, exitCode,
                   decoderVars, exactVars, approxVars>>

\* lines 115-121: the first k points make the system; new Array(k) throws a
\* RangeError for a negative k; points[i] of a missing point is undefined and
\* reading its x throws a TypeError
BuildSystem ==
    /\ pc = "build"
    /\ IF doc.k < 0 \/ Len(points) < doc.k
       THEN /\ pc' = "error" /\ err' = (IF doc.k < 0 THEN "RangeError" ELSE "TypeError")
            /\ UNCHANGED <<heap, A, b, given>>
       ELSE /\ LET rows == [i \in 1..doc.k |-> powerRow(points[i].x, doc.k)]
                   v    == [i \in 1..doc.k |-> points[i].y]
               IN  /\ heap' = rows \o <<v>>
                   /\ given' = [matrix |-> rows, rhs |-> v]
            /\ A' = [i \in 1..doc.k |-> i]
            /\ b' = doc.k + 1
            /\ pc' = "copy" /\ err' = err
    /\ UNCHANGED <<col, pivot, x, M, y, matrix, rhs, calls, x1, decoderVars, mainVars>>

\* coeffs[0] of an empty coefficient vector
Undefined == [cls |-> "undefined", neg |-> FALSE, man |-> << >>, exp |-> 0]

\* lines 123-140: the constant term is written (the check of the remaining
\* points sets a flag nothing reads) and the process ends; with k = 0 the
\* coefficient vector is empty and undefined is written
WriteConstantApprox ==
    /\ pc = "returned"
    /\ printed' = Append(printed, IF x = << >> THEN Undefined ELSE x[1])
    /\ exitCode' = 0
    /\ pc' = "exit"
    /\ UNCHANGED <<err, col, pivot, x, poly, doc, points,
                   decoderVars, exactVars, approxVars>>

\* lines 144-147: the error is reported on the error stream and the process
\* exits with status 1
CatchError ==
    /\ pc = "error"
    /\ exitCode' = ExitStatusOfError
    /\ pc' = "exit"
    /\ UNCHANGED <<err, col, pivot, x, poly, doc, points, printed,
                   decoderVars, exactVars, approxVars>>

\* the keys of the documents tried, in Object.keys order (the integer keys
\* ascending, then the others), and what an entry may hold
\* "1", "2", "3", "01", "a"
DocKeys == << <<49>>, <<50>>, <<51>>, <<48, 49>>, <<97>> >>
\* TAB "-7" in base "10"; "111" in base 2; "g" in base 16; "1" in base 0 and
\* in base "0"
EntryChoices ==
    { [form |-> "full", base |-> [num |-> 10, den |-> 1, text |-> TRUE], value |-> <<9, 45, 55>>],
      [form |-> "full", base |-> [num |-> 2,  den |-> 1, text |-> FALSE], value |-> <<49, 49, 49>>],
      [form |-> "full", base |-> [num |-> 16, den |-> 1, text |-> FALSE], value |-> <<103>>],
      [form |-> "full", base |-> [num |-> 0,  den |-> 1, text |-> FALSE], value |-> <<49>>],
      [form |-> "full", base |-> [num |-> 0,  den |-> 1, text |-> TRUE], value |-> <<49>>] }
\* keys.n and keys.k: k from -1 to MaxK with n = 4, n the number 0, and one
\* of them stated as the string "0", as the empty string, as null or not at
\* all
KeyPairs ==
    {[n |-> 4, k |-> k, stated |-> [n |-> "number", k |-> "number"]] : k \in -1..MaxK}
        \cup {[n |-> 0, k |-> 2, stated |-> [n |-> "number", k |-> "number"]],
              [n |-> 4, k |-> 0, stated |-> [n |-> "number", k |-> "string"]],
              [n |-> 4, k |-> 0, stated |-> [n |-> "number", k |-> "empty"]],
              [n |-> 0, k |-> 1, stated |-> [n |-> "empty", k |-> "number"]],
              [n |-> 4, k |-> 0, stated |-> [n |-> "number", k |-> "missing"]],
              [n |-> 0, k |-> 1, stated |-> [n |-> "null", k |-> "string"]]}

\* the entries of the keys in present, in order, with the contents holds gives
RECURSIVE entriesOf(_, _, _)
entriesOf(present, holds, p) ==
    IF p > Len(DocKeys) THEN << >>
    ELSE IF p \in present
         THEN <<[key |-> DocKeys[p], form |-> holds[p].form,
                 base |-> holds[p].base, value |-> holds[p].value]>>
                 \o entriesOf(present, holds, p + 1)
         ELSE entriesOf(present, holds, p + 1)

InitMain ==
    /\ pc = "parse"
    /\ err = ""
    /\ \E nk \in KeyPairs, present \in SUBSET (1..Len(DocKeys)) :
          \E holds \in [present -> EntryChoices] :
             doc = [n |-> nk.n, k |-> nk.k, stated |-> nk.stated,
                    entries |-> entriesOf(present, holds, 1)]
    /\ poly = << >> /\ points = << >> /\ printed = << >> /\ exitCode = -1
    /\ col = 0 /\ pivot = 0 /\ x = << >>
    /\ IdleDecoder /\ IdleExact /\ IdleApprox

NextMain ==
    \/ ParseInput \/ BuildSystem
    \/ CopyInputs \/ PartialPivot \/ Reduce \/ BackSubstituteApprox
    \/ WriteConstantApprox \/ CatchError

SpecMain == InitMain /\ [][NextMain]_vars

\* the value starts, after white space and a sign, with a digit of the base
StartsWithDigit(value, B) ==
    \E i \in 1..Len(value) :
        /\ RadixDigit(value[i], B) >= 0
        /\ \A j \in 1..(i - 1) : value[j] \in StrWhiteSpaceChar \cup {45, 43}

\* the entries of the document that are usable points: a key of digits, a
\* base in 2..36 and a value that starts with a digit of that base
UsablePoints(d) ==
    {p \in 1..Len(d.entries) :
        /\ IsDigits(d.entries[p].key)
        /\ d.entries[p].form = "full"
        /\ SupportedBase(d.entries[p].base)
        /\ StartsWithDigit(d.entries[p].value, d.entries[p].base.num)}

\* C8: a run in which an error was raised writes nothing and ends with a
\* non-zero status; a run given fewer usable points than k is such a run; and
\* a constant term is written only by a run without error, which ends with
\* status 0.
C8_AbortWithoutPartialResult ==
    /\ (err # "") => printed = << >>
    /\ (pc = "exit" /\ err # "") => exitCode # 0
    /\ (pc = "exit" /\ Cardinality(UsablePoints(doc)) < doc.k)
          => (err # "" /\ exitCode # 0 /\ printed = << >>)
    /\ (printed # << >>) => (err = "" /\ pc = "exit" /\ exitCode = 0 /\ Len(printed) = 1)

\* C8 witness: a document with two usable points and a threshold of 3 has
\* ended the run with the error of too few points, status 1, nothing written
C8_Witness ==
    /\ pc = "exit" /\ err = "NotEnoughPoints"
    /\ Cardinality(UsablePoints(doc)) = 2 /\ doc.k = 3
    /\ exitCode = 1 /\ printed = << >>

-----------------------------------------------------------------------------
(* The decoder on one entry, on either path *)

\* characters of the value strings tried
\* 0, 1, f, g, Z, x, -, TAB and KELVIN SIGN
Chars == {48, 49, 102, 103, 90, 120, 45, 9, 8490}

\* bases tried: 0, 1, 2, 16, 36, 37 and 2.5 as numbers, "0" and "16" as
\* strings
BaseInputs == {[num |-> n, den |-> 1, text |-> FALSE] : n \in {0, 1, 2, 16, 36, 37}}
                \cup {[num |-> 5, den |-> 2, text |-> FALSE]}
                \cup {[num |-> n, den |-> 1, text |-> TRUE] : n \in {0, 16}}

\* entries that are not an object with a base and a value
OtherEntries ==
    {[form |-> f, base |-> [num |-> 10, den |-> 1, text |-> FALSE], value |-> <<49>>] :
        f \in {"nobase", "novalue", "null"}}
    \cup {[form |-> f, base |-> [num |-> 0, den |-> 1, text |-> f = "emptybase"],
           value |-> v] :
            f \in {"emptybase", "nullbase"}, v \in {<<49>>, <<48>>, << >>, <<120>>}}

Strings(n) == UNION {[1..l -> Chars] : l \in 0..n}

InitDecode ==
    /\ pc = "entry"
    /\ err = ""
    /\ entry \in [form : {"full"}, base : BaseInputs, value : Strings(MaxLen)]
                    \cup OtherEntries
    /\ decoded = 0
    /\ col = 0 /\ pivot = 0 /\ x = << >>
    /\ IdleExact /\ IdleApprox /\ IdleMain

\* src/index2.js main, lines 111-113, on the entry
DecodeExact ==
    /\ pc = "entry"
    /\ LET r == DecodeEntryExact(entry)
       IN  /\ pc' = "exact"
           /\ err' = IF r.status = "ok" THEN "" ELSE r.status
           /\ decoded' = r.val
    /\ UNCHANGED <<entry, col, pivot, x, exactVars, approxVars, mainVars>>

\* src/index.js parseInput, lines 22-33, on the entry
DecodeApprox ==
    /\ pc = "entry"
    /\ LET r == DecodeEntryApprox(entry)
       IN  /\ pc' = "approx"
           /\ err' = IF r.status = "ok" THEN "" ELSE r.status
           /\ decoded' = r.val
    /\ UNCHANGED <<entry, col, pivot, x, exactVars, approxVars, mainVars>>

NextDecode == DecodeExact \/ DecodeApprox

SpecDecode == InitDecode /\ [][NextDecode]_vars

\* some character of s has no digit value in 0-9, a-z, A-Z, or one that is
\* not below B
HasInvalidDigit(s, B) == \E i \in 1..Len(s) : RadixDigit(s[i], B) < 0

\* C2: a value string with a character that is no digit of the (supported)
\* base is never decoded to an integer: decoding it ends in an error, on the
\* exact path and on the approximate path.  (Any error is accepted here as the
\* InvalidDigit failure.)
C2_InvalidDigitFails ==
    (pc \in {"exact", "approx"} /\ entry.form = "full" /\ SupportedBase(entry.base)
        /\ HasInvalidDigit(entry.value, entry.base.num))
    => err # ""

\* C7: an entry whose base is not an integer in 2..36 is never decoded:
\* decoding it ends in an error, on the exact path and on the approximate
\* path.  (Any error is accepted here as the UnsupportedBase failure.)
C7_UnsupportedBaseFails ==
    (pc \in {"exact", "approx"} /\ entry.form = "full" /\ ~SupportedBase(entry.base))
        => err # ""

=============================================================================
